---- MODULE Spec2Model ----
(***************************************************************************)
(* A model of the raytracing_rs renderer: the AABB slab test, the          *)
(* HittableList, the BVH builder and traversal, the recursive radiance     *)
(* estimator Camera::ray_color, the colour quantiser write_color and the   *)
(* fork-join pixel loop of Camera::render.                                 *)
(*                                                                         *)
(* Numbers.  An f64 is modelled as an exact extended rational <<n, d>>:    *)
(*   d > 0   the finite value n/d in lowest terms,                         *)
(*   <<1,0>> +infinity, <<-1,0>> -infinity, <<0,0>> NaN.                   *)
(* The operators below follow IEEE-754 on these values (inf - inf = NaN,   *)
(* 0 * inf = NaN, x / 0 = +-inf, 0 / 0 = NaN, every comparison with NaN    *)
(* false).  Rounding and the sign of zero are not modelled: a zero is +0.  *)
(***************************************************************************)
EXTENDS Integers, Sequences, FiniteSets, TLC

VARIABLES
    ray,            \* Ray of the current query: [orig, dir, tm]
    ray_t,          \* Interval of the current query
    box,            \* AABB under test (AABB::hit)
    boxHit,         \* "unset" | "hit" | "miss": result of AABB::hit
    objects,        \* HittableList.objects
    bounding_box,   \* HittableList.bounding_box (cached)
    pc,             \* phase of the scene pipeline: "populate", "building", "built", "queried", "overflow"
    stack,          \* call stack of BVHNode::from_vector: frames [start, end, step, left]
    ret,            \* Option: the node returned by the last finished from_vector call
    root,           \* Option: the BVHNode made by from_hittable_list
    bvhRec,         \* Option<HitRecord> of root.hit(ray, ray_t)
    listRec,        \* Option<HitRecord> of HittableList::hit(ray, ray_t) on the same list
    cam,            \* Camera: [samples_per_pixel, max_depth, background, sqrt_spp, pixel_samples_scale]
    lights,         \* lights.objects.len()
    sample,         \* number of samples of the pixel already summed
    pixel_color,    \* the pixel's running sum of ray_color results
    rcCall,         \* Option: depth argument of the ray_color call about to run
    rcStack,        \* ray_color frames waiting for their recursive call
    rcRet,          \* Option: colour returned by the ray_color call that just finished
    counts,         \* calls made for the current primary ray: [hit, emitted, scatter, generate]
    shadow,         \* what the sample and the pixel sum would be with zero-density samples dropped
    outPixel,       \* Option: the line write_color made for the pixel
    call,           \* a function applied on its own: [fn, args]
    result,         \* Option: what that call returned
    traced,         \* the grid cells <<s_i, s_j>> of the pixel for which get_ray was called, in order
    image,          \* [image_width, image_height] of the camera that renders
    phase,          \* position of render: "idle", "rendering", "joined", "written", "flushed"
    cells,          \* per pixel <<i, j>>: Option of the String its closure returned
    rows,           \* per scanline j: Option of the joined String of its pixels
    pixels,         \* Option: the joined String of all scanlines
    writer,         \* what has been written to the BufWriter, in order
    computed        \* the pixels in the order their closures finished

aabbVars == <<box, boxHit>>
callVars == <<call, result>>
queryVars == <<ray, ray_t>>
listVars == <<objects, bounding_box>>
bvhVars == <<pc, stack, ret, root, bvhRec, listRec>>
camVars == <<cam, lights, sample, pixel_color, rcCall, rcStack, rcRet, counts, shadow, outPixel, traced>>
renderVars == <<image, phase, cells, rows, pixels, writer, computed>>
vars == <<ray, ray_t, box, boxHit, objects, bounding_box, pc, stack, ret, root, bvhRec, listRec,
          cam, lights, sample, pixel_color, rcCall, rcStack, rcRet, counts, shadow, outPixel, traced, call, result,
          image, phase, cells, rows, pixels, writer, computed>>

(***************************************************************************)
(* f64 arithmetic                                                          *)
(***************************************************************************)
Abs(x) == IF x < 0 THEN -x ELSE x
Sgn(x) == IF x > 0 THEN 1 ELSE IF x < 0 THEN -1 ELSE 0

RECURSIVE Gcd(_, _)
Gcd(a, b) == IF b = 0 THEN a ELSE Gcd(b, a % b)

\* n/d in lowest terms with a positive denominator; s is the sign of d and g
\* the greatest common divisor of n and d.
Reduce(s, n, d, g) == <<(s * n) \div g, (s * d) \div g>>
Norm(n, d) ==
    IF d = 0 THEN <<Sgn(n), 0>>
    ELSE Reduce(Sgn(d), n, d, Gcd(Abs(n), Abs(d)))

F(n) == <<n, 1>>
Frac(n, d) == Norm(n, d)
NaN == <<0, 0>>
PosInf == <<1, 0>>
NegInf == <<-1, 0>>
Zero == F(0)
One == F(1)

IsNaN(a) == a = NaN
IsFinite(a) == a[2] # 0

FNeg(a) == <<-a[1], a[2]>>
\* a + b over the least common denominator; g is the greatest common divisor
\* of the denominators, which is not 0 unless both are.
AddOver(a, b, g) ==
    Norm(a[1] * (b[2] \div g) + b[1] * (a[2] \div g), (a[2] \div g) * b[2])
FAdd(a, b) ==
    IF a[2] = 0 /\ b[2] = 0
    THEN (IF a = b THEN a ELSE NaN)
    ELSE AddOver(a, b, Gcd(a[2], b[2]))
FSub(a, b) == FAdd(a, FNeg(b))
FMul(a, b) == Norm(a[1] * b[1], a[2] * b[2])
FDiv(a, b) ==
    IF b = Zero THEN <<Sgn(a[1]), 0>>
    ELSE IF b[2] = 0 THEN (IF b = NaN \/ a[2] = 0 THEN NaN ELSE Zero)
    ELSE Norm(a[1] * b[2] * Sgn(b[1]), a[2] * Abs(b[1]))

LtOver(a, b, g) == a[1] * (b[2] \div g) < b[1] * (a[2] \div g)
FLt(a, b) ==
    /\ a # NaN
    /\ b # NaN
    /\ a # b
    /\ IF a[2] = 0 THEN a = NegInf
       ELSE IF b[2] = 0 THEN b = PosInf
       ELSE LtOver(a, b, Gcd(a[2], b[2]))
FLe(a, b) == a # NaN /\ b # NaN /\ (a = b \/ FLt(a, b))
FGt(a, b) == FLt(b, a)
FGe(a, b) == FLe(b, a)

\* f64::min / f64::max: a NaN operand is ignored.
FMin(a, b) == IF a = NaN THEN b ELSE IF b = NaN THEN a ELSE IF FLt(b, a) THEN b ELSE a
FMax(a, b) == IF a = NaN THEN b ELSE IF b = NaN THEN a ELSE IF FLt(a, b) THEN b ELSE a
FAbs(a) == <<Abs(a[1]), a[2]>>

\* Integer square root (floor), by bisection.
RECURSIVE SqrtSearch(_, _, _)
SqrtSearch(n, lo, hi) ==
    IF lo >= hi THEN lo
    ELSE LET mid == (lo + hi + 1) \div 2
         IN  IF mid * mid <= n THEN SqrtSearch(n, mid, hi) ELSE SqrtSearch(n, lo, mid - 1)
ISqrt(n) == SqrtSearch(n, 0, IF n < 46340 THEN n ELSE 46340)
\* f64::sqrt: NaN for a negative or NaN operand, +inf for +inf; a finite value
\* is rounded down in numerator and denominator, which is exact on the
\* squares of rationals.
FSqrt(a) ==
    IF a = NaN \/ a[1] < 0 THEN NaN
    ELSE IF a[2] = 0 THEN PosInf
    ELSE Norm(ISqrt(a[1]), ISqrt(a[2]))

(***************************************************************************)
(* vec3                                                                    *)
(***************************************************************************)
Axes == <<"X", "Y", "Z">>
AxisIndex(axis) == IF axis = "X" THEN 1 ELSE IF axis = "Y" THEN 2 ELSE 3
component(v, axis) == v[AxisIndex(axis)]

Vec(x, y, z) == <<F(x), F(y), F(z)>>
VZERO == Vec(0, 0, 0)
VONE == Vec(1, 1, 1)
VAdd(a, b) == <<FAdd(a[1], b[1]), FAdd(a[2], b[2]), FAdd(a[3], b[3])>>
VSub(a, b) == <<FSub(a[1], b[1]), FSub(a[2], b[2]), FSub(a[3], b[3])>>
VMul(a, b) == <<FMul(a[1], b[1]), FMul(a[2], b[2]), FMul(a[3], b[3])>>
VScale(a, k) == <<FMul(a[1], k), FMul(a[2], k), FMul(a[3], k)>>
VDivK(a, k) == <<FDiv(a[1], k), FDiv(a[2], k), FDiv(a[3], k)>>
VNeg(a) == <<FNeg(a[1]), FNeg(a[2]), FNeg(a[3])>>
dot(a, b) == FAdd(FAdd(FMul(a[1], b[1]), FMul(a[2], b[2])), FMul(a[3], b[3]))
length_squared(a) == dot(a, a)
length(a) == FSqrt(length_squared(a))
unit_vector(a) == VDivK(a, length(a))
cross(a, b) ==
    << FSub(FMul(a[2], b[3]), FMul(a[3], b[2])),
       FSub(FMul(a[3], b[1]), FMul(a[1], b[3])),
       FSub(FMul(a[1], b[2]), FMul(a[2], b[1])) >>

(***************************************************************************)
(* Ray                                                                     *)
(***************************************************************************)
Ray_with_time(origin, direction, time) == [orig |-> origin, dir |-> direction, tm |-> time]
Ray_new(origin, direction) == [orig |-> origin, dir |-> direction, tm |-> Zero]
Ray_at(r, t) == VAdd(r.orig, VScale(r.dir, t))

(***************************************************************************)
(* Interval                                                                *)
(***************************************************************************)
Interval_new(lo, hi) == [min |-> lo, max |-> hi]
Interval_EMPTY == [min |-> PosInf, max |-> NegInf]
Interval_UNIVERSE == [min |-> NegInf, max |-> PosInf]
Interval_UNIT == [min |-> Zero, max |-> One]
\* The lower end taken from the first interval alone.
Interval_from_interval_first_min(a, b) == [min |-> a.min, max |-> FMax(a.max, b.max)]
Interval_from_interval(a, b) == [min |-> FMin(a.min, b.min), max |-> FMax(a.max, b.max)]
size(i) == FSub(i.max, i.min)
contains(i, x) == FLe(i.min, x) /\ FLe(x, i.max)
surrounds(i, x) == FLt(i.min, x) /\ FLt(x, i.max)
clamp(i, x) == IF FLt(x, i.min) THEN i.min ELSE IF FGt(x, i.max) THEN i.max ELSE x
expand(i, delta) ==
    LET padding == FDiv(delta, F(2))
    IN  [min |-> FSub(i.min, padding), max |-> FAdd(i.max, padding)]
Interval_add(i, k) == [min |-> FAdd(i.min, k), max |-> FAdd(i.max, k)]

(***************************************************************************)
(* AABB                                                                    *)
(***************************************************************************)
delta == Frac(1, 10000)

AABB_EMPTY == [x |-> Interval_EMPTY, y |-> Interval_EMPTY, z |-> Interval_EMPTY]
AABB_UNIVERSE == [x |-> Interval_UNIVERSE, y |-> Interval_UNIVERSE, z |-> Interval_UNIVERSE]

pad_to_minimums(b) ==
    [x |-> IF FLt(size(b.x), delta) THEN expand(b.x, delta) ELSE b.x,
     y |-> IF FLt(size(b.y), delta) THEN expand(b.y, delta) ELSE b.y,
     z |-> IF FLt(size(b.z), delta) THEN expand(b.z, delta) ELSE b.z]

AABB_from_interval(x, y, z) == pad_to_minimums([x |-> x, y |-> y, z |-> z])

AABB_from_point(a, b) ==
    pad_to_minimums(
        [x |-> Interval_new(FMin(a[1], b[1]), FMax(a[1], b[1])),
         y |-> Interval_new(FMin(a[2], b[2]), FMax(a[2], b[2])),
         z |-> Interval_new(FMin(a[3], b[3]), FMax(a[3], b[3]))])

AABB_from_bounding_box(box1, box2) ==
    pad_to_minimums(
        [x |-> Interval_from_interval(box1.x, box2.x),
         y |-> Interval_from_interval(box1.y, box2.y),
         z |-> Interval_from_interval(box1.z, box2.z)])

axis_interval(b, axis) == IF axis = "X" THEN b.x ELSE IF axis = "Y" THEN b.y ELSE b.z

longest_axis(b) ==
    IF FGe(size(b.x), size(b.y)) /\ FGe(size(b.x), size(b.z)) THEN "X"
    ELSE IF FGe(size(b.y), size(b.z)) THEN "Y"
    ELSE "Z"

\* One iteration of the loop of AABB::hit: TRUE when the axis rejects the ray.
AxisMisses(b, r, rt, axis) ==
    LET ax_ivl == axis_interval(b, axis)
        ad_inv == FDiv(One, component(r.dir, axis))
        t0 == FMul(FSub(ax_ivl.min, component(r.orig, axis)), ad_inv)
        t1 == FMul(FSub(ax_ivl.max, component(r.orig, axis)), ad_inv)
        min_check == FMax(rt.min, FMin(t0, t1))
        max_check == FMin(rt.max, FMax(t0, t1))
    IN  FLe(max_check, min_check)

AABB_hit(b, r, rt) == \A k \in 1..3 : ~AxisMisses(b, r, rt, Axes[k])

AABB_add(b, offset) ==
    [x |-> Interval_add(b.x, offset[1]),
     y |-> Interval_add(b.y, offset[2]),
     z |-> Interval_add(b.z, offset[3])]

(***************************************************************************)
(* HitRecord                                                               *)
(***************************************************************************)
\* Option<HitRecord>: <<>> is None, <<rec>> is Some(rec).
None == <<>>
Some(r) == <<r>>
IsSome(o) == o # <<>>

\* HitRecord::new, the normal set by set_face_normal.
FacedRecord(point, mat, t, uv, outward_normal, front_face) ==
    [point |-> point,
     normal |-> IF front_face THEN outward_normal ELSE VNeg(outward_normal),
     mat |-> mat, t |-> t, uv |-> uv, front_face |-> front_face]

HitRecord_new(point, mat, t, uv, r, outward_normal) ==
    FacedRecord(point, mat, t, uv, outward_normal, FLt(dot(r.dir, outward_normal), Zero))

(***************************************************************************)
(* Plane and Quad                                                          *)
(***************************************************************************)
ParallelEps == Frac(1, 100000000)

Plane_new(orig, dir_a, dir_b, mat) ==
    LET n == cross(dir_a, dir_b)
        normal == unit_vector(n)
    IN  [kind |-> "plane", orig |-> orig, dir_a |-> dir_a, dir_b |-> dir_b,
         w |-> VDivK(n, length_squared(n)),
         area |-> length(n),
         quad_eq_d |-> dot(normal, orig),
         normal |-> normal,
         mat |-> mat,
         bounding_box |-> AABB_UNIVERSE]

planar_hit_coordinates(p, intersection) ==
    LET planar_hitpt_vector == VSub(intersection, p.orig)
    IN  << dot(p.w, cross(planar_hitpt_vector, p.dir_b)),
           dot(p.w, cross(p.dir_a, planar_hitpt_vector)) >>

\* Plane::hit from the parameter t of the intersection on.
PlaneAt(p, r, rt, t, intersection) ==
    IF ~contains(rt, t) THEN None
    ELSE Some(HitRecord_new(intersection, p.mat, t,
                            planar_hit_coordinates(p, intersection),
                            r, p.normal))

PlaneCut(p, r, rt, t) == PlaneAt(p, r, rt, t, Ray_at(r, t))

PlaneFacing(p, r, rt, denominator) ==
    IF FLt(FAbs(denominator), ParallelEps) THEN None
    ELSE PlaneCut(p, r, rt, FDiv(FSub(p.quad_eq_d, dot(p.normal, r.orig)), denominator))

Plane_hit(p, r, rt) == PlaneFacing(p, r, rt, dot(p.normal, r.dir))

Quad_new(orig, dir_a, dir_b, mat) ==
    LET diagonal1 == AABB_from_point(orig, VAdd(VAdd(orig, dir_a), dir_b))
        diagonal2 == AABB_from_point(VAdd(orig, dir_a), VAdd(orig, dir_b))
    IN  [Plane_new(orig, dir_a, dir_b, mat)
            EXCEPT !.kind = "quad",
                   !.bounding_box = AABB_from_bounding_box(diagonal1, diagonal2)]

Quad_is_interior(plane_coord) ==
    ~( ~contains(Interval_UNIT, plane_coord[1]) \/ ~contains(Interval_UNIT, plane_coord[2]) )

\* The record of the plane with its planar coordinates as uv.
WithUV(rec, plane_coord) == [rec EXCEPT !.uv = plane_coord]

QuadInterior(rec, plane_coord) ==
    IF Quad_is_interior(plane_coord) THEN Some(WithUV(rec, plane_coord)) ELSE None

QuadFound(q, o) ==
    IF IsSome(o) THEN QuadInterior(o[1], planar_hit_coordinates(q, o[1].point)) ELSE None

Quad_hit(q, r, rt) == QuadFound(q, Plane_hit(q, r, rt))

(***************************************************************************)
(* Inputs                                                                  *)
(***************************************************************************)
MaxObjs == 3

\* The scene primitives: axis-aligned quads, as Quad::new_box makes them.
Prims ==
    { Quad_new(Vec(0, 0, 0),  Vec(2, 0, 0), Vec(0, 2, 0), "m1"),
      Quad_new(Vec(0, 0, -2), Vec(2, 0, 0), Vec(0, 2, 0), "m2"),
      Quad_new(Vec(1, 0, -1), Vec(0, 0, 2), Vec(0, 2, 0), "m3"),
      Quad_new(Vec(3, 0, 0),  Vec(2, 0, 0), Vec(0, 2, 0), "m4") }

Coords == {-4, -1, 0, 1, 3}
DirComps == {-1, 0, 1}
BoxInputs ==
    { AABB_from_point(Vec(0, 0, 0), Vec(2, 2, 2)),
      AABB_from_point(Vec(2, 1, 0), Vec(0, 3, 0)) }
RayInputs ==
    { Ray_new(Vec(ox, oy, oz), Vec(dx, dy, dz)) :
        ox \in Coords, oy \in Coords, oz \in {1}, dx \in DirComps, dy \in DirComps, dz \in DirComps }
IntervalInputs ==
    { Interval_new(Frac(1, 1000), PosInf), Interval_UNIVERSE, Interval_new(Zero, F(2)) }

NoRay == Ray_new(VZERO, VZERO)

(***************************************************************************)
(* AABB::hit as an operation on drawn inputs                               *)
(***************************************************************************)
AABBIdle == box = AABB_EMPTY /\ boxHit = "unset"
NoCall == [fn |-> "none", args |-> <<>>]
CallIdle == call = NoCall /\ result = <<>>
QueryIdle == ray = NoRay /\ ray_t = Interval_EMPTY
ListIdle == objects = <<>> /\ bounding_box = AABB_EMPTY
BVHIdle ==
    /\ pc = "populate" /\ stack = <<>> /\ ret = <<>> /\ root = <<>>
    /\ bvhRec = <<>> /\ listRec = <<>>
NoCounts == [hit |-> 0, emitted |-> 0, scatter |-> 0, generate |-> 0]
NoShadow == [ret |-> <<>>, sum |-> VZERO]
CamIdle ==
    /\ cam = [samples_per_pixel |-> 0, max_depth |-> 0, background |-> VZERO,
              sqrt_spp |-> 0, pixel_samples_scale |-> Zero]
    /\ lights = 0 /\ sample = 0 /\ pixel_color = VZERO
    /\ rcCall = <<>> /\ rcStack = <<>> /\ rcRet = <<>>
    /\ counts = NoCounts /\ shadow = NoShadow /\ outPixel = <<>> /\ traced = <<>>

RenderIdle ==
    /\ image = [image_width |-> 0, image_height |-> 0]
    /\ phase = "idle"
    /\ cells = <<>> /\ rows = <<>> /\ pixels = <<>>
    /\ writer = <<>> /\ computed = <<>>

InitAABB ==
    /\ box \in BoxInputs
    /\ ray \in RayInputs
    /\ ray_t \in IntervalInputs
    /\ boxHit = "unset"
    /\ CallIdle
    /\ ListIdle
    /\ BVHIdle
    /\ CamIdle /\ RenderIdle

AABBHit ==
    /\ boxHit = "unset"
    /\ box # AABB_EMPTY
    /\ boxHit' = IF AABB_hit(box, ray, ray_t) THEN "hit" ELSE "miss"
    /\ UNCHANGED <<box, callVars, queryVars, listVars, bvhVars, camVars, renderVars>>

NextAABB == AABBHit
SpecAABB == InitAABB /\ [][NextAABB]_vars

(***************************************************************************)
(* The AABB constructors and the offset sum, applied to the values the     *)
(* program hands them                                                      *)
(***************************************************************************)
PointInputs == { Vec(0, 0, 0), Vec(2, 2, 2), Vec(2, 0, 1), Vec(-1, 3, 0) }
OffsetInputs == { Vec(0, 0, 0), Vec(1, -2, 0) }
MadeIntervals ==
    { Interval_EMPTY, Interval_UNIVERSE, Interval_UNIT, Interval_new(One, One) }
\* AABB::EMPTY is the box of HittableList::new, AABB::UNIVERSE the box of a
\* Plane; the others are boxes of spheres and quads (flat ones included).
MadeBoxes ==
    { AABB_EMPTY, AABB_UNIVERSE } \cup { AABB_from_point(a, b) : a \in PointInputs, b \in PointInputs }

InitMake ==
    /\ CallIdle
    /\ AABBIdle /\ QueryIdle /\ ListIdle /\ BVHIdle /\ CamIdle /\ RenderIdle

MakeOthers == <<aabbVars, queryVars, listVars, bvhVars, camVars, renderVars>>

MakeFromInterval ==
    /\ \E x \in MadeIntervals, y \in MadeIntervals, z \in MadeIntervals :
        /\ call' = [fn |-> "from_interval", args |-> <<x, y, z>>]
        /\ result' = <<AABB_from_interval(x, y, z)>>
    /\ UNCHANGED MakeOthers

MakeFromPoint ==
    /\ \E a \in PointInputs, b \in PointInputs :
        /\ call' = [fn |-> "from_point", args |-> <<a, b>>]
        /\ result' = <<AABB_from_point(a, b)>>
    /\ UNCHANGED MakeOthers

MakeFromBoundingBox ==
    /\ \E box1 \in MadeBoxes, box2 \in MadeBoxes :
        /\ call' = [fn |-> "from_bounding_box", args |-> <<box1, box2>>]
        /\ result' = <<AABB_from_bounding_box(box1, box2)>>
    /\ UNCHANGED MakeOthers

MakeAdd ==
    /\ \E b \in MadeBoxes, offset \in OffsetInputs :
        /\ call' = [fn |-> "add", args |-> <<b, offset>>]
        /\ result' = <<AABB_add(b, offset)>>
    /\ UNCHANGED MakeOthers

NextMake == MakeFromInterval \/ MakeFromPoint \/ MakeFromBoundingBox \/ MakeAdd
SpecMake == InitMake /\ [][NextMake]_vars

(***************************************************************************)
(* HittableList                                                            *)
(***************************************************************************)
HittableList_new == [objects |-> <<>>, bounding_box |-> AABB_EMPTY]

HittableList_add(list, object) ==
    [objects |-> Append(list.objects, object),
     bounding_box |-> AABB_from_bounding_box(list.bounding_box, object.bounding_box)]

HittableList_clear(list) == [list EXCEPT !.objects = <<>>]

HittableList_from_object(object) == HittableList_add(HittableList_new, object)

ThisList == [objects |-> objects, bounding_box |-> bounding_box]

InitList == ListIdle /\ AABBIdle /\ CallIdle /\ QueryIdle /\ BVHIdle /\ CamIdle /\ RenderIdle

ListNew ==
    /\ pc = "populate"
    /\ objects' = HittableList_new.objects
    /\ bounding_box' = HittableList_new.bounding_box
    /\ UNCHANGED <<aabbVars, callVars, queryVars, bvhVars, camVars, renderVars>>

ListFromObject ==
    \E o \in Prims :
        /\ pc = "populate"
        /\ objects' = HittableList_from_object(o).objects
        /\ bounding_box' = HittableList_from_object(o).bounding_box
        /\ UNCHANGED <<aabbVars, callVars, queryVars, bvhVars, camVars, renderVars>>

ListAdd ==
    \E o \in Prims :
        /\ pc = "populate"
        /\ Len(objects) < MaxObjs
        /\ objects' = HittableList_add(ThisList, o).objects
        /\ bounding_box' = HittableList_add(ThisList, o).bounding_box
        /\ UNCHANGED <<aabbVars, callVars, queryVars, bvhVars, camVars, renderVars>>

ListClear ==
    /\ pc = "populate"
    /\ objects' = HittableList_clear(ThisList).objects
    /\ bounding_box' = HittableList_clear(ThisList).bounding_box
    /\ UNCHANGED <<aabbVars, callVars, queryVars, bvhVars, camVars, renderVars>>

NextList == ListNew \/ ListFromObject \/ ListAdd \/ ListClear
SpecList == InitList /\ [][NextList]_vars

(***************************************************************************)
(* BVHNode: construction                                                   *)
(***************************************************************************)
MaxStack == 4
QueryOrigins == { Vec(0, 1, 3), Vec(1, 1, 3), Vec(2, 2, 3), Vec(4, 1, 3), Vec(-1, 1, 0), Vec(0, 3, 3) }
QueryDirs == { Vec(0, 0, -1), Vec(1, 0, -1), Vec(1, 0, 0), Vec(0, -1, -1), Vec(1, 1, -1) }
QueryRays == { Ray_new(o, d) : o \in QueryOrigins, d \in QueryDirs }
QueryIntervals == { Interval_new(Frac(1, 1000), PosInf), Interval_new(Zero, F(3)) }

box_compare(a, b, axis) ==
    LET a_axis_interval == axis_interval(a.bounding_box, axis)
        b_axis_interval == axis_interval(b.bounding_box, axis)
    IN  IF FLt(a_axis_interval.min, b_axis_interval.min) THEN "Less"
        ELSE IF FGt(a_axis_interval.min, b_axis_interval.min) THEN "Greater"
        ELSE "Equal"

\* slice::sort_by is a stable sort: x goes before the first element greater
\* than it, after every element that compares Less or Equal.
RECURSIVE SortInsert(_, _, _)
\* An insertion that overwrites the first element it meets instead of
\* shifting it: the slice keeps its length and loses an object.
SortInsert_overwrite(sorted, x, axis) ==
    IF sorted = <<>> THEN <<x>>
    ELSE IF box_compare(Head(sorted), x, axis) = "Greater" THEN <<x>> \o Tail(sorted)
    ELSE <<Head(sorted)>> \o SortInsert(Tail(sorted), x, axis)

SortInsert(sorted, x, axis) ==
    IF sorted = <<>> THEN <<x>>
    ELSE IF box_compare(Head(sorted), x, axis) = "Greater" THEN <<x>> \o sorted
    ELSE <<Head(sorted)>> \o SortInsert(Tail(sorted), x, axis)
RECURSIVE sort_by(_, _)
sort_by(seq, axis) ==
    IF seq = <<>> THEN <<>>
    ELSE SortInsert(sort_by(SubSeq(seq, 1, Len(seq) - 1), axis), seq[Len(seq)], axis)

\* objects[start..end) sorted in place (indices are 0-based as in the code).
SortSlice(objs, start, end, axis) ==
    SubSeq(objs, 1, start) \o sort_by(SubSeq(objs, start + 1, end), axis)
        \o SubSeq(objs, end + 1, Len(objs))

\* The local bounding_box of from_vector: the union over the whole vector.
RECURSIVE VectorBox(_)
VectorBox(objs) ==
    IF objs = <<>> THEN AABB_EMPTY
    ELSE AABB_from_bounding_box(VectorBox(SubSeq(objs, 1, Len(objs) - 1)),
                                objs[Len(objs)].bounding_box)

\* A node that caches the box of its left child alone.
BVHNode_new_left_box(left, right) ==
    [kind |-> "bvh", left |-> left, right |-> right, bounding_box |-> left.bounding_box]

BVHNode_new(left, right) ==
    [kind |-> "bvh", left |-> left, right |-> right,
     bounding_box |-> AABB_from_bounding_box(left.bounding_box, right.bounding_box)]

Frame(start, end) == [start |-> start, end |-> end, step |-> "enter", left |-> <<>>]
Top == stack[Len(stack)]
Pop == SubSeq(stack, 1, Len(stack) - 1)
SetTop(f) == [stack EXCEPT ![Len(stack)] = f]

\* A finished call hands its node to the caller, or to from_hittable_list.
Return(node) ==
    /\ stack' = Pop
    /\ ret' = Some(node)
    /\ IF Len(stack) = 1
       THEN root' = Some(node) /\ pc' = "built"
       ELSE UNCHANGED <<root, pc>>

from_hittable_list ==
    /\ pc = "populate"
    /\ pc' = "building"
    /\ stack' = <<Frame(0, Len(objects))>>
    /\ UNCHANGED <<ret, root, bvhRec, listRec, listVars, aabbVars, callVars, queryVars, camVars, renderVars>>

\* from_vector up to its first recursive call (or to its return, for 1 or 2).
from_vector_enter ==
    /\ pc = "building"
    /\ stack # <<>>
    /\ Top.step = "enter"
    /\ LET start == Top.start
           end == Top.end
           object_span == end - start
           mid == start + (object_span \div 2)
       IN  IF object_span = 1
           THEN /\ Return(BVHNode_new(objects[start + 1], objects[start + 1]))
                /\ UNCHANGED objects
           ELSE IF object_span = 2
           THEN /\ Return(BVHNode_new(objects[start + 1], objects[start + 2]))
                /\ UNCHANGED objects
           ELSE /\ objects' = SortSlice(objects, start, end, longest_axis(VectorBox(objects)))
                /\ IF Len(stack) >= MaxStack
                   THEN pc' = "overflow" /\ UNCHANGED <<stack, ret, root>>
                   ELSE /\ stack' = Append(SetTop([Top EXCEPT !.step = "left"]), Frame(start, mid))
                        /\ UNCHANGED <<pc, ret, root>>
    /\ UNCHANGED <<bvhRec, listRec, bounding_box, aabbVars, callVars, queryVars, camVars, renderVars>>

\* The left child is built: call from_vector on the right half.
from_vector_left ==
    /\ pc = "building"
    /\ stack # <<>>
    /\ Top.step = "left"
    /\ LET mid == Top.start + ((Top.end - Top.start) \div 2)
       IN  stack' = Append(SetTop([Top EXCEPT !.step = "right", !.left = ret]),
                           Frame(mid, Top.end))
    /\ UNCHANGED <<pc, ret, root, bvhRec, listRec, listVars, aabbVars, callVars, queryVars, camVars, renderVars>>

\* Both children are built: make the node and return it.
from_vector_right ==
    /\ pc = "building"
    /\ stack # <<>>
    /\ Top.step = "right"
    /\ Return(BVHNode_new(Top.left[1], ret[1]))
    /\ UNCHANGED <<bvhRec, listRec, listVars, aabbVars, callVars, queryVars, camVars, renderVars>>

(***************************************************************************)
(* BVHNode::from_hittable_list on lists of up to MaxBuild objects          *)
(***************************************************************************)
MaxBuild == 6
BuildInputs == UNION { [1..n -> Prims] : n \in 1..MaxBuild }

\* The list as HittableList::add left it, before the BVH is built.
InitBuild ==
    /\ objects \in BuildInputs
    /\ bounding_box = VectorBox(objects)
    /\ AABBIdle /\ CallIdle /\ QueryIdle /\ BVHIdle /\ CamIdle /\ RenderIdle

NextBuild ==
    \/ from_hittable_list
    \/ from_vector_enter
    \/ from_vector_left
    \/ from_vector_right
SpecBuild == InitBuild /\ [][NextBuild]_vars

(***************************************************************************)
(* Hittable::hit                                                           *)
(***************************************************************************)
RECURSIVE Hit(_, _, _)

\* Sphere: center is a Ray from the center at time 0 to the center at time 1.
Sphere_new_stationary(static_center, radius, mat) ==
    LET rvec == VScale(VONE, radius)
    IN  [kind |-> "sphere", center |-> Ray_new(static_center, VZERO),
         radius |-> FMax(radius, Zero), mat |-> mat,
         bounding_box |-> AABB_from_point(VSub(static_center, rvec), VAdd(static_center, rvec))]

Sphere_new_moving(center1, center2, radius, mat) ==
    LET center == Ray_new(center1, VSub(center2, center1))
        rvec == VScale(VONE, radius)
        box1 == AABB_from_point(VSub(Ray_at(center, Zero), rvec), VAdd(Ray_at(center, Zero), rvec))
        box2 == AABB_from_point(VSub(Ray_at(center, One), rvec), VAdd(Ray_at(center, One), rvec))
    IN  [kind |-> "sphere", center |-> center, radius |-> FMax(radius, Zero), mat |-> mat,
         bounding_box |-> AABB_from_bounding_box(box1, box2)]

\* The two roots of the quadratic of Sphere::hit:
\* (h -+ sqrt(h*h - a*c)) / a, <<>> when the discriminant is negative.
QuadraticRoots(a, h, discriminant) ==
    IF FLt(discriminant, Zero) THEN <<>>
    ELSE << FDiv(FSub(h, FSqrt(discriminant)), a), FDiv(FAdd(h, FSqrt(discriminant)), a) >>

SphereQuadratic(a, h, c) == QuadraticRoots(a, h, FSub(FMul(h, h), FMul(a, c)))

Sphere_oc(sp, r) == VSub(Ray_at(sp.center, r.tm), r.orig)

Sphere_roots(sp, r) ==
    SphereQuadratic(length_squared(r.dir),
                    dot(r.dir, Sphere_oc(sp, r)),
                    FSub(length_squared(Sphere_oc(sp, r)), FMul(sp.radius, sp.radius)))

\* The root Sphere::hit settles on, <<>> when it returns None.
NearestRoot(roots, rt) ==
    IF roots = <<>> THEN <<>>
    ELSE IF surrounds(rt, roots[1]) THEN <<roots[1]>>
    ELSE IF surrounds(rt, roots[2]) THEN <<roots[2]>>
    ELSE <<>>

Sphere_root(sp, r, rt) == NearestRoot(Sphere_roots(sp, r), rt)

\* uv (get_sphere_uv: acos and atan2 of the normal) is left at (0, 0).
SphereRecord(sp, r, root_, ray_root) ==
    HitRecord_new(ray_root, sp.mat, root_, <<Zero, Zero>>, r,
                  VDivK(VSub(ray_root, Ray_at(sp.center, r.tm)), sp.radius))

SphereFound(sp, r, found) ==
    IF found = <<>> THEN None
    ELSE Some(SphereRecord(sp, r, found[1], Ray_at(r, found[1])))

Sphere_hit(sp, r, rt) == SphereFound(sp, r, Sphere_root(sp, r, rt))

Tri_new(orig, dir_a, dir_b, mat) ==
    LET diagonal1 == AABB_from_point(orig, VAdd(VAdd(orig, dir_a), dir_b))
        diagonal2 == AABB_from_point(VAdd(orig, dir_a), VAdd(orig, dir_b))
    IN  [Plane_new(orig, dir_a, dir_b, mat)
            EXCEPT !.kind = "tri",
                   !.bounding_box = AABB_from_bounding_box(diagonal1, diagonal2)]

Tri_is_interior(plane_coord) ==
    ~( FLt(plane_coord[1], Zero) \/ FLt(plane_coord[2], Zero)
       \/ FGt(FAdd(plane_coord[1], plane_coord[2]), One) )

TriInterior(rec, plane_coord) ==
    IF Tri_is_interior(plane_coord) THEN Some(WithUV(rec, plane_coord)) ELSE None

TriFound(q, o) ==
    IF IsSome(o) THEN TriInterior(o[1], planar_hit_coordinates(q, o[1].point)) ELSE None

Tri_hit(q, r, rt) == TriFound(q, Plane_hit(q, r, rt))

Translation_new(object, offset) ==
    [kind |-> "translation", object |-> object, offset |-> offset,
     bounding_box |-> AABB_add(object.bounding_box, offset)]

\* Angles are whole multiples of 90 degrees, whose cosine and sine are exact.
Turn(degrees) == ((degrees % 360) + 360) % 360
Cos(degrees) == IF Turn(degrees) = 0 THEN One ELSE IF Turn(degrees) = 180 THEN F(-1) ELSE Zero
Sin(degrees) == IF Turn(degrees) = 90 THEN One ELSE IF Turn(degrees) = 270 THEN F(-1) ELSE Zero

AxisRotation_rotate(axis, point, radian) ==
    IF axis = "X"
    THEN << point[1],
            FAdd(FMul(Cos(radian), point[2]), FMul(FNeg(Sin(radian)), point[3])),
            FAdd(FMul(Sin(radian), point[2]), FMul(Cos(radian), point[3])) >>
    ELSE IF axis = "Y"
    THEN << FAdd(FMul(Cos(radian), point[1]), FMul(Sin(radian), point[3])),
            point[2],
            FAdd(FMul(FNeg(Sin(radian)), point[1]), FMul(Cos(radian), point[3])) >>
    ELSE << FAdd(FMul(Cos(radian), point[1]), FMul(FNeg(Sin(radian)), point[2])),
            FAdd(FMul(Sin(radian), point[1]), FMul(Cos(radian), point[2])),
            point[3] >>

\* for &axis in Axis::iterator() { p = rotate(axis, p, sign * angles[axis]) }
RotateAll(point, angles, sign) ==
    LET px == AxisRotation_rotate("X", point, sign * angles[1])
        py == AxisRotation_rotate("Y", px, sign * angles[2])
    IN  AxisRotation_rotate("Z", py, sign * angles[3])

EulerRotation_new(object, angles) ==
    LET bb == object.bounding_box
        Corner(i, j, k) ==
            << FAdd(FMul(F(i), bb.x.max), FMul(F(1 - i), bb.x.min)),
               FAdd(FMul(F(j), bb.y.max), FMul(F(1 - j), bb.y.min)),
               FAdd(FMul(F(k), bb.z.max), FMul(F(1 - k), bb.z.min)) >>
        rotated == { RotateAll(Corner(i, j, k), angles, 1) : i \in 0..1, j \in 0..1, k \in 0..1 }
        Least(n) == CHOOSE m \in { p[n] : p \in rotated } : \A p \in rotated : FLe(m, p[n])
        Most(n) == CHOOSE m \in { p[n] : p \in rotated } : \A p \in rotated : FGe(m, p[n])
    IN  [kind |-> "rotation", object |-> object, euler_angles |-> angles,
         bounding_box |-> AABB_from_point(<<Least(1), Least(2), Least(3)>>,
                                          <<Most(1), Most(2), Most(3)>>)]

ConstantMedium_new(boundary, density, albedo) ==
    [kind |-> "medium", boundary |-> boundary,
     neg_inv_density |-> FDiv(F(-1), density),
     phase_function |-> [kind |-> "Isotropic", color |-> albedo],
     bounding_box |-> boundary.bounding_box]

\* BVHNode::hit.  The code passes one HitRecord by reference: the right child
\* overwrites what the left child wrote, so the right record wins when both hit.
BVHNode_hit(node, r, rt) ==
    IF ~AABB_hit(node.bounding_box, r, rt) THEN None
    ELSE LET hit_left == Hit(node.left, r, rt)
             right_ray_max == IF IsSome(hit_left) THEN hit_left[1].t ELSE rt.max
             hit_right == Hit(node.right, r, Interval_new(rt.min, right_ray_max))
         IN  IF IsSome(hit_right) THEN hit_right ELSE hit_left

RECURSIVE ListScan(_, _, _, _, _)
ListScan(objs, r, rt, closest_so_far, hit_rec) ==
    IF objs = <<>> THEN hit_rec
    ELSE LET o == Hit(Head(objs), r, Interval_new(rt.min, closest_so_far))
         IN  IF IsSome(o)
             THEN ListScan(Tail(objs), r, rt, o[1].t, o)
             ELSE ListScan(Tail(objs), r, rt, closest_so_far, hit_rec)

HittableList_hit(list, r, rt) == ListScan(list.objects, r, rt, rt.max, None)

Hit(obj, r, rt) ==
    IF obj.kind = "quad" THEN Quad_hit(obj, r, rt)
    ELSE IF obj.kind = "bvh" THEN BVHNode_hit(obj, r, rt)
    ELSE HittableList_hit(obj, r, rt)

\* dyn Hittable::hit on the objects a wrapper holds: a primitive, a list or a BVH.
ObjectHit(obj, r, rt) ==
    IF obj.kind = "sphere" THEN Sphere_hit(obj, r, rt)
    ELSE IF obj.kind = "tri" THEN Tri_hit(obj, r, rt)
    ELSE Hit(obj, r, rt)

RECURSIVE ShapeHit(_, _, _)

\* The object-space ray of EulerRotation::hit.
EulerRotation_rotated_ray(rot, r) ==
    Ray_new(RotateAll(r.orig, rot.euler_angles, -1), RotateAll(r.dir, rot.euler_angles, -1))

\* The record of object space taken back to world space.
RotateBack(rot, o) ==
    IF IsSome(o)
    THEN Some([o[1] EXCEPT !.point = RotateAll(o[1].point, rot.euler_angles, 1),
                           !.normal = RotateAll(o[1].normal, rot.euler_angles, 1)])
    ELSE None

EulerRotation_hit(rot, r, rt) ==
    RotateBack(rot, ShapeHit(rot.object, EulerRotation_rotated_ray(rot, r), rt))

MoveBack(tr, o) ==
    IF IsSome(o) THEN Some([o[1] EXCEPT !.point = VAdd(o[1].point, tr.offset)])
    ELSE None

\* The object-space ray of Translation::hit.
Translation_offset_ray(tr, r) == Ray_with_time(VSub(r.orig, tr.offset), r.dir, r.tm)

Translation_hit(tr, r, rt) ==
    MoveBack(tr, ShapeHit(tr.object, Translation_offset_ray(tr, r), rt))

\* dyn Hittable::hit on any object but a medium.
ShapeHit(obj, r, rt) ==
    IF obj.kind = "translation" THEN Translation_hit(obj, r, rt)
    ELSE IF obj.kind = "rotation" THEN EulerRotation_hit(obj, r, rt)
    ELSE ObjectHit(obj, r, rt)

\* ConstantMedium::hit; ln_random is f64::ln(utilities::random()), in [-inf, 0).
MediumSample(m, r, t1, hit_distance, distance_inside_boundary, ray_length) ==
    IF FGt(hit_distance, distance_inside_boundary) THEN None
    ELSE Some([point |-> Ray_at(r, FAdd(t1, FDiv(hit_distance, ray_length))),
               normal |-> Vec(1, 0, 0),
               mat |-> m.phase_function,
               t |-> FAdd(t1, FDiv(hit_distance, ray_length)),
               uv |-> <<Zero, Zero>>,
               front_face |-> TRUE])

\* rec1.t and rec2.t are clamped to ray_t already; rec1.t is raised to 0 after the test.
MediumSpan(m, r, t1, t2, ln_random, ray_length) ==
    IF FGe(t1, t2) THEN None
    ELSE MediumSample(m, r, FMax(t1, Zero), FMul(m.neg_inv_density, ln_random),
                      FMul(FSub(t2, FMax(t1, Zero)), ray_length), ray_length)

MediumExit(m, r, rt, ln_random, rec1, o2) ==
    IF ~IsSome(o2) THEN None
    ELSE MediumSpan(m, r,
                    IF FLt(rec1.t, rt.min) THEN rt.min ELSE rec1.t,
                    IF FGt(o2[1].t, rt.max) THEN rt.max ELSE o2[1].t,
                    ln_random, length(r.dir))

MediumEntry(m, r, rt, ln_random, o1) ==
    IF ~IsSome(o1) THEN None
    ELSE MediumExit(m, r, rt, ln_random, o1[1],
                    ShapeHit(m.boundary, r,
                             Interval_new(FAdd(o1[1].t, Frac(1, 10000)), PosInf)))

ConstantMedium_hit(m, r, rt, ln_random) ==
    MediumEntry(m, r, rt, ln_random, ShapeHit(m.boundary, r, Interval_UNIVERSE))

\* The number of hit calls BVHNode::hit makes on a tree, itself included: one
\* when the box rejects the ray, else one more for each call below the children.
RECURSIVE HitCalls(_, _, _)
HitCallsBelow(node, r, rt, hit_left) ==
    1 + HitCalls(node.left, r, rt)
      + HitCalls(node.right, r,
                 Interval_new(rt.min, IF IsSome(hit_left) THEN hit_left[1].t ELSE rt.max))

\* A traversal that goes down the left child once more after it reported a hit.
HitCalls_left_again(obj, r, rt) ==
    IF obj.kind # "bvh" THEN 1
    ELSE IF ~AABB_hit(obj.bounding_box, r, rt) THEN 1
    ELSE HitCallsBelow(obj, r, rt, Hit(obj.left, r, rt))
         + (IF IsSome(Hit(obj.left, r, rt)) THEN HitCalls(obj.left, r, rt) ELSE 0)

HitCalls(obj, r, rt) ==
    IF obj.kind # "bvh" THEN 1
    ELSE IF ~AABB_hit(obj.bounding_box, r, rt) THEN 1
    ELSE HitCallsBelow(obj, r, rt, Hit(obj.left, r, rt))

\* One ray is traced through the BVH and through the flat list.
Query ==
    /\ pc = "built"
    /\ \E r \in QueryRays, rt \in QueryIntervals :
        /\ ray' = r
        /\ ray_t' = rt
        /\ bvhRec' = Hit(root[1], r, rt)
        /\ listRec' = HittableList_hit(ThisList, r, rt)
    /\ pc' = "queried"
    /\ UNCHANGED <<stack, ret, root, listVars, aabbVars, callVars, camVars, renderVars>>

InitBVH == ListIdle /\ AABBIdle /\ CallIdle /\ QueryIdle /\ BVHIdle /\ CamIdle /\ RenderIdle
NextBVH ==
    \/ ListAdd
    \/ from_hittable_list
    \/ from_vector_enter
    \/ from_vector_left
    \/ from_vector_right
    \/ Query
SpecBVH == InitBVH /\ [][NextBVH]_vars

(***************************************************************************)
(* Materials and PDFs                                                      *)
(***************************************************************************)
PI == Frac(22, 7)

Lambertian(albedo) == [kind |-> "Lambertian", color |-> albedo]
Metal(albedo) == [kind |-> "Metal", color |-> albedo]
Dielectric == [kind |-> "Dielectric", color |-> VONE]
DiffuseLight(emit) == [kind |-> "DiffuseLight", color |-> emit]
Isotropic(albedo) == [kind |-> "Isotropic", color |-> albedo]
Empty == [kind |-> "Empty", color |-> VZERO]

Half == Frac(1, 2)
Materials ==
    { Lambertian(<<Half, Half, Half>>), Metal(<<One, Half, Zero>>), Dielectric,
      DiffuseLight(<<F(4), F(4), F(4)>>), Isotropic(<<One, One, Half>>), Empty }

\* A Metal that also emits its albedo.
emitted_glowing_metal(mat, rec) ==
    IF mat.kind = "DiffuseLight"
    THEN (IF ~rec.front_face THEN VZERO ELSE mat.color)
    ELSE IF mat.kind = "Metal" THEN mat.color
    ELSE VZERO

\* Material::emitted: only DiffuseLight overrides the default.
emitted(mat, rec) ==
    IF mat.kind = "DiffuseLight"
    THEN (IF ~rec.front_face THEN VZERO ELSE mat.color)
    ELSE VZERO

\* Material::scatter: Option<ScatterRecord>.  pdf names the PDF in pdf_ptr.
scatter(mat) ==
    IF mat.kind = "Lambertian"
    THEN Some([attenuation |-> mat.color, pdf |-> "CosinePDF", skip_pdf |-> FALSE])
    ELSE IF mat.kind = "Isotropic"
    THEN Some([attenuation |-> mat.color, pdf |-> "SpherePDF", skip_pdf |-> FALSE])
    ELSE IF mat.kind = "Metal"
    THEN Some([attenuation |-> mat.color, pdf |-> "EmptyPDF", skip_pdf |-> TRUE])
    ELSE IF mat.kind = "Dielectric"
    THEN Some([attenuation |-> VONE, pdf |-> "EmptyPDF", skip_pdf |-> TRUE])
    ELSE None

\* A sampled direction, as far as the estimator looks at it: the cosine of
\* its angle with the hit normal and the density lights.pdf_value gives it.
Dirs == [cos : {F(-1), Zero, One}, light_pdf : {Zero, One}]

\* The cosine density without the test for the back side.
scattering_pdf_unguarded(mat, d) ==
    IF mat.kind = "Lambertian" THEN FDiv(d.cos, PI)
    ELSE IF mat.kind = "Isotropic" THEN FDiv(One, FMul(F(4), PI))
    ELSE Zero

\* Material::scattering_pdf
scattering_pdf(mat, d) ==
    IF mat.kind = "Lambertian"
    THEN (IF FLt(d.cos, Zero) THEN Zero ELSE FDiv(d.cos, PI))
    ELSE IF mat.kind = "Isotropic" THEN FDiv(One, FMul(F(4), PI))
    ELSE Zero

\* PDF::value of the unmixed PDFs.
PDF_value(pdf, d) ==
    IF pdf = "SpherePDF" THEN FDiv(One, FMul(F(4), PI))
    ELSE IF pdf = "CosinePDF" THEN FMax(Zero, FDiv(d.cos, PI))
    ELSE IF pdf = "HittablePDF" THEN d.light_pdf
    ELSE Zero

\* The light's density alone.
MixturePDF_value_light_only(light_pdf, surface_pdf, d) == PDF_value(light_pdf, d)

MixturePDF_value(light_pdf, surface_pdf, d) ==
    FAdd(FMul(Half, PDF_value(light_pdf, d)), FMul(Half, PDF_value(surface_pdf, d)))

\* PDF::generate: the directions a PDF can return.  random_cosine_direction
\* has z = sqrt(1 - r2) > 0, so a CosinePDF sample has a positive cosine.
PDF_generate(pdf) ==
    IF pdf = "CosinePDF" THEN {d \in Dirs : FGt(d.cos, Zero)}
    ELSE Dirs

(***************************************************************************)
(* The PDFs and the materials' densities, applied on their own             *)
(***************************************************************************)
PDFKinds == {"EmptyPDF", "SpherePDF", "CosinePDF", "HittablePDF"}
\* utilities::random() lies in [0, 1).
RandomInputs == { Zero, Frac(1, 4), Half, Frac(3, 4) }

\* MixturePDF::generate: the children it calls and the directions it can return.
MixturePDF_generate(light_pdf, surface_pdf, r) ==
    IF FLt(r, Half)
    THEN [delegates |-> <<"light_pdf">>, dirs |-> PDF_generate(light_pdf)]
    ELSE [delegates |-> <<"surface_pdf">>, dirs |-> PDF_generate(surface_pdf)]

ONB_new(n) ==
    LET w == unit_vector(n)
        a == IF FGt(FAbs(w[1]), Frac(9, 10)) THEN Vec(0, 1, 0) ELSE Vec(1, 0, 0)
        v == unit_vector(cross(w, a))
        u == cross(w, v)
    IN  [u |-> u, v |-> v, w |-> w]

\* cosine_theta of CosinePDF::value, for CosinePDF::new(w).
CosinePDF_cosine_theta(w, direction) == dot(unit_vector(direction), ONB_new(w).w)
\* cos_theta of Lambertian::scattering_pdf.
Lambertian_cos_theta(normal, direction) == dot(normal, unit_vector(direction))

\* Unit normals, as HitRecord::new and ConstantMedium::hit store them.
NormalInputs == { Vec(0, 0, 1), Vec(0, -1, 0), Vec(1, 0, 0), <<Frac(3, 5), Frac(4, 5), Zero>> }
\* Scattered directions of any length (lengths with an exact square root).
DirectionInputs ==
    { Vec(0, 0, 2), Vec(0, 0, -1), Vec(3, 4, 0), Vec(-3, -4, 0), Vec(0, 3, 4),
      Vec(1, 0, 0), Vec(0, 2, 0), Vec(4, -3, 0) }

InitPdf ==
    /\ CallIdle
    /\ AABBIdle /\ QueryIdle /\ ListIdle /\ BVHIdle /\ CamIdle /\ RenderIdle

MixtureValue ==
    /\ \E light_pdf \in PDFKinds, surface_pdf \in PDFKinds, d \in Dirs :
        /\ call' = [fn |-> "MixturePDF::value", args |-> <<light_pdf, surface_pdf, d>>]
        /\ result' = <<MixturePDF_value(light_pdf, surface_pdf, d)>>
    /\ UNCHANGED MakeOthers

MixtureGenerate ==
    /\ \E light_pdf \in PDFKinds, surface_pdf \in PDFKinds, r \in RandomInputs :
        LET g == MixturePDF_generate(light_pdf, surface_pdf, r)
        IN  \E d \in g.dirs :
                /\ call' = [fn |-> "MixturePDF::generate", args |-> <<light_pdf, surface_pdf, r>>]
                /\ result' = <<[delegates |-> g.delegates, direction |-> d]>>
    /\ UNCHANGED MakeOthers

\* scatter and scattering_pdf of one material on one hit, and the value its
\* ScatterRecord's PDF gives the same scattered direction.
ScatteringPdf ==
    /\ \E mat \in Materials, normal \in NormalInputs, direction \in DirectionInputs :
        /\ scatter(mat) # None
        /\ call' = [fn |-> "scattering_pdf", args |-> <<mat, normal, direction>>]
        /\ result' =
             <<[scattering_pdf |->
                    scattering_pdf(mat, [cos |-> Lambertian_cos_theta(normal, direction),
                                         light_pdf |-> Zero]),
                pdf_value |->
                    PDF_value(scatter(mat)[1].pdf,
                              [cos |-> CosinePDF_cosine_theta(normal, direction),
                               light_pdf |-> Zero])]>>
    /\ UNCHANGED MakeOthers

NextPdf == MixtureValue \/ MixtureGenerate \/ ScatteringPdf
SpecPdf == InitPdf /\ [][NextPdf]_vars

(***************************************************************************)
(* Hittable::random and Hittable::pdf_value                                *)
(***************************************************************************)
\* The sampling interval of every pdf_value.
SampleInterval == Interval_new(Frac(1, 1000), PosInf)

\* distance_squared / (cos_theta * area) of the record, 0.0 without one.
PlanarDensity(area, direction, o) ==
    IF IsSome(o)
    THEN FDiv(FMul(FMul(o[1].t, o[1].t), length_squared(direction)),
              FMul(FAbs(FDiv(dot(direction, o[1].normal), length(direction))), area))
    ELSE Zero

\* plane::Plane::pdf_value, which Tri::pdf_value calls: the test is the
\* plane's hit, not the triangle's.
Plane_pdf_value(p, origin, direction) ==
    PlanarDensity(p.area, direction, Plane_hit(p, Ray_new(origin, direction), SampleInterval))

\* plane::Plane::random, which Tri::random calls; r1, r2 are the two random() draws.
Plane_random(p, origin, r1, r2) ==
    VSub(VAdd(VAdd(p.orig, VScale(p.dir_a, r1)), VScale(p.dir_b, r2)), origin)

\* quad::Quad::pdf_value: the test is the quad's own hit.
Quad_pdf_value(q, origin, direction) ==
    PlanarDensity(q.area, direction, Quad_hit(q, Ray_new(origin, direction), SampleInterval))

Quad_random(q, origin, r1, r2) ==
    VSub(VAdd(VAdd(q.orig, VScale(q.dir_a, r1)), VScale(q.dir_b, r2)), origin)

ONB_transform(uvw, v) ==
    VAdd(VAdd(VScale(uvw.u, v[1]), VScale(uvw.v, v[2])), VScale(uvw.w, v[3]))

\* phi = 2 * PI * r1 in degrees; r1 is a multiple of 1/4.
Phi(r1) == (360 * r1[1]) \div r1[2]

ConePoint(r1, z) ==
    << FMul(Cos(Phi(r1)), FSqrt(FSub(One, FMul(z, z)))),
       FMul(Sin(Phi(r1)), FSqrt(FSub(One, FMul(z, z)))),
       z >>

Sphere_random_to_sphere(radius, distance_squared, r1, r2) ==
    ConePoint(r1, FAdd(One, FMul(r2, FSub(FSqrt(FSub(One, FDiv(FMul(radius, radius),
                                                               distance_squared))), One))))

Sphere_random(sp, origin, r1, r2) ==
    ONB_transform(ONB_new(VSub(Ray_at(sp.center, Zero), origin)),
                  Sphere_random_to_sphere(sp.radius,
                      length_squared(VSub(Ray_at(sp.center, Zero), origin)), r1, r2))

SphereDensity(sp, origin, o) ==
    IF IsSome(o)
    THEN FDiv(One, FMul(FMul(F(2), PI),
                        FSub(One, FSqrt(FSub(One, FDiv(FMul(sp.radius, sp.radius),
                                 length_squared(VSub(Ray_at(sp.center, Zero), origin))))))))
    ELSE Zero

Sphere_pdf_value(sp, origin, direction) ==
    SphereDensity(sp, origin, Sphere_hit(sp, Ray_new(origin, direction), SampleInterval))

\* Hittable::random and Hittable::pdf_value of the shapes that implement them.
Random(shape, origin, r1, r2) ==
    IF shape.kind = "sphere" THEN Sphere_random(shape, origin, r1, r2)
    ELSE IF shape.kind = "quad" THEN Quad_random(shape, origin, r1, r2)
    ELSE Plane_random(shape, origin, r1, r2)

PdfValue(shape, origin, direction) ==
    IF shape.kind = "sphere" THEN Sphere_pdf_value(shape, origin, direction)
    ELSE IF shape.kind = "quad" THEN Quad_pdf_value(shape, origin, direction)
    ELSE Plane_pdf_value(shape, origin, direction)

(***************************************************************************)
(* Hittable::hit of each variant, applied on its own                       *)
(***************************************************************************)
UnitQuad == Quad_new(Vec(0, 0, 0), Vec(2, 0, 0), Vec(0, 2, 0), "m1")
FarQuad == Quad_new(Vec(-2, 0, -2), Vec(4, 0, 0), Vec(0, 2, 0), "m2")
WideQuad == Quad_new(Vec(1, -1, -2), Vec(4, 0, 0), Vec(0, 4, 0), "m3")
UnitSphere == Sphere_new_stationary(Vec(0, 0, 0), One, "m1")
AsObject(list) == [kind |-> "list", objects |-> list.objects, bounding_box |-> list.bounding_box]

HitObjects ==
    { UnitSphere,
      Sphere_new_moving(Vec(0, 0, 0), Vec(2, 0, 0), One, "m1"),
      UnitQuad,
      Tri_new(Vec(0, 0, 0), Vec(2, 0, 0), Vec(0, 2, 0), "m1"),
      AsObject(HittableList_add(HittableList_from_object(UnitQuad), FarQuad)),
      BVHNode_new(UnitQuad, FarQuad),
      \* the tree from_vector builds of <<UnitQuad, WideQuad, WideQuad>>
      BVHNode_new(BVHNode_new(UnitQuad, UnitQuad), BVHNode_new(WideQuad, WideQuad)),
      Translation_new(UnitSphere, Vec(2, 0, 0)),
      EulerRotation_new(UnitQuad, <<90, 0, 0>>),
      EulerRotation_new(UnitQuad, <<90, 0, 90>>) }

Media ==
    { ConstantMedium_new(UnitSphere, One, VONE),
      ConstantMedium_new(Translation_new(UnitSphere, Vec(2, 0, 0)), Frac(1, 2), VONE) }

HitOrigins ==
    { Vec(0, 0, 3), Vec(1, 1, 3), Vec(0, 1, 3), Vec(0, 0, 0), Vec(1, 1, -3), Vec(-3, 0, 0),
      Vec(2, 0, 3), Vec(1, 3, 1), Vec(1, -3, 1), Vec(3, 1, 1), Vec(-3, 1, 1),
      <<Frac(3, 2), F(2), F(3)>> }
HitDirs ==
    { Vec(0, 0, -1), Vec(0, 0, 1), Vec(0, 0, -2), Vec(1, 0, 0), Vec(-1, 0, 0),
      Vec(0, 1, 0), Vec(0, -1, 0) }
HitRays == { Ray_with_time(o, d, tm) : o \in HitOrigins, d \in HitDirs, tm \in {Zero, One} }
HitIntervals ==
    { Interval_new(Frac(1, 1000), PosInf), Interval_UNIVERSE,
      Interval_new(Zero, F(2)), Interval_new(F(2), F(5)) }
LnRandomInputs == { NegInf, F(-2), F(-1), Frac(-1, 2), Frac(-1, 10) }

\* The parameters t at which the ray meets the surface of the object, in or
\* out of any interval.
RECURSIVE Intersections(_, _)
Intersections(obj, r) ==
    IF obj.kind = "sphere"
    THEN { Sphere_roots(obj, r)[n] : n \in 1..Len(Sphere_roots(obj, r)) }
    ELSE IF obj.kind \in {"quad", "tri"}
    THEN { ObjectHit(obj, r, Interval_UNIVERSE)[n].t :
             n \in 1..Len(ObjectHit(obj, r, Interval_UNIVERSE)) }
    ELSE IF obj.kind = "list"
    THEN UNION { Intersections(obj.objects[n], r) : n \in 1..Len(obj.objects) }
    ELSE IF obj.kind = "bvh"
    THEN Intersections(obj.left, r) \cup Intersections(obj.right, r)
    ELSE IF obj.kind = "translation"
    THEN Intersections(obj.object, Ray_with_time(VSub(r.orig, obj.offset), r.dir, r.tm))
    ELSE IF obj.kind = "rotation"
    THEN Intersections(obj.object, EulerRotation_rotated_ray(obj, r))
    ELSE {}

InitHit ==
    /\ CallIdle
    /\ AABBIdle /\ QueryIdle /\ ListIdle /\ BVHIdle /\ CamIdle /\ RenderIdle

HitObject ==
    /\ call = NoCall
    /\ \E obj \in HitObjects, r \in HitRays, rt \in HitIntervals :
        /\ call' = [fn |-> "hit", args |-> <<obj, r, rt>>]
        /\ result' = <<ShapeHit(obj, r, rt)>>
    /\ UNCHANGED MakeOthers

HitMedium ==
    /\ call = NoCall
    /\ \E m \in Media, r \in HitRays, rt \in HitIntervals, ln_random \in LnRandomInputs :
        /\ call' = [fn |-> "hit", args |-> <<m, r, rt, ln_random>>]
        /\ result' = <<ConstantMedium_hit(m, r, rt, ln_random)>>
    /\ UNCHANGED MakeOthers

\* The shapes lights are made of, the origins they are sampled from (outside
\* the sphere, off the plane of the quad and the triangle) and the second
\* random() draw (for the sphere: draws whose square roots are exact).
SampleCases ==
    [shape : {Sphere_new_stationary(Vec(0, 0, 0), F(3), "m1")},
     origin : {Vec(0, 0, -5), Vec(5, 0, 0)},
     r2 : {Zero, Frac(1, 5)}]
    \cup
    [shape : {UnitQuad, Tri_new(Vec(0, 0, 0), Vec(2, 0, 0), Vec(0, 2, 0), "m1")},
     origin : {Vec(0, 0, -5), Vec(1, 1, 3), Vec(5, 0, 1)},
     r2 : RandomInputs]

\* lights.random(origin) followed by lights.pdf_value(origin, direction), as
\* HittablePDF does for ray_color, and the shape's hit along the direction.
ShapeRandom ==
    /\ call = NoCall
    /\ \E c \in SampleCases, r1 \in RandomInputs :
        \E direction \in {Random(c.shape, c.origin, r1, c.r2)} :
            /\ call' = [fn |-> "random", args |-> <<c.shape, c.origin, r1, c.r2>>]
            /\ result' = <<[direction |-> direction,
                            hit |-> ObjectHit(c.shape, Ray_new(c.origin, direction), SampleInterval),
                            pdf_value |-> PdfValue(c.shape, c.origin, direction)]>>
    /\ UNCHANGED MakeOthers

\* The caller is done with the record: the next call starts afresh.
HitDrop ==
    /\ call # NoCall
    /\ call' = NoCall
    /\ result' = <<>>
    /\ UNCHANGED MakeOthers

NextHit == HitObject \/ HitMedium \/ ShapeRandom \/ HitDrop
SpecHit == InitHit /\ [][NextHit]_vars

(***************************************************************************)
(* ray_color from the hit on: scatter, the selected PDF and the ray the    *)
(* recursive call is made on                                               *)
(***************************************************************************)
Metal_new(albedo, fuzz) == [kind |-> "Metal", color |-> albedo, fuzz |-> FMin(fuzz, One)]
Dielectric_new(refractive_index) ==
    [kind |-> "Dielectric", color |-> VONE, refractive_index |-> refractive_index]

reflect(v, n) == VSub(v, VScale(n, FMul(F(2), dot(v, n))))

\* r_out_perp + r_out_parallel of Vec3f::refract.
RefractFrom(n, r_out_perp) ==
    VAdd(r_out_perp,
         VScale(n, FNeg(FSqrt(FAbs(FSub(One, length_squared(r_out_perp)))))))
refract(uv, n, etai_over_etat) ==
    RefractFrom(n, VScale(VAdd(uv, VScale(n, FMin(dot(VNeg(uv), n), One))), etai_over_etat))

\* f64::powi
RECURSIVE powi(_, _)
powi(x, n) == IF n = 0 THEN One ELSE FMul(x, powi(x, n - 1))

ReflectanceFrom(r0, cosine) == FAdd(r0, FMul(FSub(One, r0), powi(FSub(One, cosine), 5)))
Dielectric_reflectance(cosine, refractive_index) ==
    ReflectanceFrom(powi(FDiv(FSub(One, refractive_index), FAdd(One, refractive_index)), 2),
                    cosine)

\* The direction Dielectric::scatter takes; r is its random() draw.
Dielectric_direction(unit_direction, normal, ri, cos_theta, r) ==
    IF \/ FGt(FMul(ri, FSqrt(FSub(One, FMul(cos_theta, cos_theta)))), One)
       \/ FGt(Dielectric_reflectance(cos_theta, ri), r)
    THEN reflect(unit_direction, normal)
    ELSE refract(unit_direction, normal, ri)

Dielectric_scatter(mat, ray_in, rec, r) ==
    [attenuation |-> VONE, pdf |-> "EmptyPDF", skip_pdf |-> TRUE,
     skip_pdf_ray |->
        Ray_with_time(rec.point,
                      Dielectric_direction(
                          unit_vector(ray_in.dir), rec.normal,
                          IF rec.front_face THEN FDiv(One, mat.refractive_index)
                                            ELSE mat.refractive_index,
                          FMin(dot(VNeg(unit_vector(ray_in.dir)), rec.normal), One), r),
                      ray_in.tm)]

\* A reflection ray made with Ray::new.
Metal_scatter_new_ray(mat, ray_in, rec, random_unit_vector) ==
    [attenuation |-> mat.color, pdf |-> "EmptyPDF", skip_pdf |-> TRUE,
     skip_pdf_ray |->
        Ray_new(rec.point,
                VAdd(unit_vector(reflect(ray_in.dir, rec.normal)),
                     VScale(random_unit_vector, mat.fuzz)))]

\* random_unit_vector is what Vec3f::random_unit_vector() returned.
Metal_scatter(mat, ray_in, rec, random_unit_vector) ==
    [attenuation |-> mat.color, pdf |-> "EmptyPDF", skip_pdf |-> TRUE,
     skip_pdf_ray |->
        Ray_with_time(rec.point,
                      VAdd(unit_vector(reflect(ray_in.dir, rec.normal)),
                           VScale(random_unit_vector, mat.fuzz)),
                      ray_in.tm)]

\* Material::scatter with the ScatterRecord's skip_pdf_ray.
Material_scatter(mat, ray_in, rec, random_unit_vector, r) ==
    IF mat.kind = "Metal" THEN Some(Metal_scatter(mat, ray_in, rec, random_unit_vector))
    ELSE IF mat.kind = "Dielectric" THEN Some(Dielectric_scatter(mat, ray_in, rec, r))
    ELSE IF scatter(mat) = None THEN None
    ELSE Some([attenuation |-> scatter(mat)[1].attenuation, pdf |-> scatter(mat)[1].pdf,
               skip_pdf |-> FALSE, skip_pdf_ray |-> NoRay])

\* HittableList::random; pick is the index objects.choose() drew.
HittableList_random(list, origin, pick, r1, r2) ==
    IF list.objects = <<>> THEN VZERO
    ELSE Random(list.objects[pick], origin, r1, r2)

RECURSIVE WeightedSum(_, _, _, _)
WeightedSum(objs, weight, origin, direction) ==
    IF objs = <<>> THEN Zero
    ELSE FAdd(FMul(weight, PdfValue(Head(objs), origin, direction)),
              WeightedSum(Tail(objs), weight, origin, direction))

HittableList_pdf_value(list, origin, direction) ==
    WeightedSum(list.objects, FDiv(One, F(Len(list.objects))), origin, direction)

\* The calls made on the lights list, each with the length of the list.
ListCall(fn, list) == [fn |-> fn, len |-> Len(list.objects)]

\* A MixturePDF over the lights whatever the length of the list.
SelectedGenerate_always_mixture(list, origin, surface, draws) ==
    IF FLt(draws.mix, Half)
    THEN [direction |-> HittableList_random(list, origin, draws.pick, draws.r1, draws.r2),
          calls |-> <<ListCall("random", list)>>]
    ELSE [direction |-> surface, calls |-> <<>>]

\* selected_pdf.generate(): the direction and the calls on the lights list.
\* surface is what scatter_rec.pdf_ptr.generate() returned, draws the values
\* of random() and of choose().
SelectedGenerate(list, origin, surface, draws) ==
    IF Len(list.objects) > 0 /\ FLt(draws.mix, Half)
    THEN [direction |-> HittableList_random(list, origin, draws.pick, draws.r1, draws.r2),
          calls |-> <<ListCall("random", list)>>]
    ELSE [direction |-> surface, calls |-> <<>>]

\* selected_pdf.value(direction) and the calls on the lights list.
SelectedValue(list, pdf, rec, direction) ==
    IF Len(list.objects) > 0
    THEN [value |->
            FAdd(FMul(Half, HittableList_pdf_value(list, rec.point, direction)),
                 FMul(Half, PDF_value(pdf, [cos |-> CosinePDF_cosine_theta(rec.normal, direction),
                                            light_pdf |-> Zero]))),
          calls |-> <<ListCall("pdf_value", list)>>]
    ELSE [value |-> PDF_value(pdf, [cos |-> CosinePDF_cosine_theta(rec.normal, direction),
                                    light_pdf |-> Zero]),
          calls |-> <<>>]

\* ray_color, lines 188-199, once the direction is generated.
Sampled(r, rec, list, scatter_rec, generated, valued) ==
    [selected_pdf |-> IF Len(list.objects) > 0 THEN "MixturePDF" ELSE scatter_rec.pdf,
     scattered |-> <<Ray_with_time(rec.point, generated.direction, r.tm)>>,
     pdf_value |-> <<valued.value>>,
     list_calls |-> generated.calls \o valued.calls]

SampleWith(r, rec, list, scatter_rec, generated) ==
    Sampled(r, rec, list, scatter_rec, generated,
            SelectedValue(list, scatter_rec.pdf, rec, generated.direction))

\* ray_color, lines 183-203: the ray its recursive call is made on (none when
\* the material does not scatter), the PDF it selected and the calls it made
\* on the lights list.
Scattered(r, rec, list, o, surface, draws) ==
    IF ~IsSome(o)
    THEN [selected_pdf |-> "none", scattered |-> <<>>, pdf_value |-> <<>>, list_calls |-> <<>>]
    ELSE IF o[1].skip_pdf
    THEN [selected_pdf |-> "none", scattered |-> <<o[1].skip_pdf_ray>>,
          pdf_value |-> <<>>, list_calls |-> <<>>]
    ELSE SampleWith(r, rec, list, o[1],
                    SelectedGenerate(list, rec.point, surface, draws))

\* Rays of every time, hit records of every material, lights lists of 0 to 2
\* shapes (a quad and a sphere, as the Cornell box has them).
ScatterRays ==
    { Ray_with_time(Vec(0, 0, 3), d, tm) :
        d \in {Vec(0, 0, -1), Vec(0, 3, -4)}, tm \in {Zero, Half, Frac(3, 4)} }
ScatterMaterials ==
    { Lambertian(<<Half, Half, Half>>), Isotropic(<<One, One, Half>>),
      Metal_new(<<One, Half, Zero>>, Zero), Metal_new(<<One, Half, Zero>>, Half),
      Dielectric_new(Frac(3, 2)), DiffuseLight(<<F(4), F(4), F(4)>>) }
ScatterRecords ==
    [point : {Vec(0, 0, -5), Vec(5, 0, 1)}, normal : {Vec(0, 0, 1), Vec(0, 1, 0)},
     front_face : BOOLEAN, mat : ScatterMaterials]
LightLists ==
    { HittableList_new,
      HittableList_from_object(UnitQuad),
      HittableList_add(HittableList_from_object(UnitQuad),
                       Sphere_new_stationary(Vec(0, 0, 0), F(3), "m1")) }
UnitVectors == { Vec(0, 0, 1), Vec(1, 0, 0), <<Zero, Frac(3, 5), Frac(-4, 5)>> }
ScatterDraws(list) ==
    [mix : {Frac(1, 4), Frac(3, 4)},
     pick : IF list.objects = <<>> THEN {1} ELSE 1..Len(list.objects),
     r1 : {Frac(1, 4)}, r2 : {Zero, Frac(1, 5)}]

InitScatter ==
    /\ CallIdle
    /\ AABBIdle /\ QueryIdle /\ ListIdle /\ BVHIdle /\ CamIdle /\ RenderIdle

RayColorScatter ==
    /\ call = NoCall
    /\ \E r \in ScatterRays, rec \in ScatterRecords, list \in LightLists,
          surface \in UnitVectors :
        \E draws \in ScatterDraws(list) :
            /\ call' = [fn |-> "ray_color", args |-> <<r, rec, list, surface, draws>>]
            /\ result' = <<Scattered(r, rec, list,
                                     Material_scatter(rec.mat, r, rec, surface, draws.mix),
                                     surface, draws)>>
    /\ UNCHANGED MakeOthers

NextScatter == RayColorScatter \/ HitDrop
SpecScatter == InitScatter /\ [][NextScatter]_vars

(***************************************************************************)
(* write_color                                                             *)
(***************************************************************************)
linear_to_gamma(linear_component) ==
    IF FGt(linear_component, Zero) THEN FSqrt(linear_component) ELSE Zero

\* `x as u8`: truncates toward zero, saturates at 0 and 255, NaN gives 0.
AsU8(x) ==
    IF x = NaN THEN 0
    ELSE IF FLe(x, Zero) THEN 0
    ELSE IF FGe(x, F(255)) THEN 255
    ELSE x[1] \div x[2]

\* Scaling by 255 in place of 256.
ColorByte_scale255(gamma) ==
    LET v == IF IsNaN(gamma) THEN Zero ELSE gamma
        intensity == Interval_new(Zero, Frac(999, 1000))
    IN  AsU8(FMul(F(255), clamp(intensity, v)))

ColorByte(gamma) ==
    LET v == IF IsNaN(gamma) THEN Zero ELSE gamma
        intensity == Interval_new(Zero, Frac(999, 1000))
    IN  AsU8(FMul(F(256), clamp(intensity, v)))

\* The line "r g b\n" as its three numbers.
write_color(c) ==
    << ColorByte(linear_to_gamma(c[1])),
       ColorByte(linear_to_gamma(c[2])),
       ColorByte(linear_to_gamma(c[3])) >>

(***************************************************************************)
(* Camera: the samples of one pixel and ray_color                          *)
(***************************************************************************)
MaxDepth == 2
\* Most rays one pixel may trace: samples times depth.
MaxRays == 4
SppInputs == {0, 1, 2, 4}
Backgrounds == { VZERO, <<Half, One, One>> }
Underflow == -1

\* The scale taken from the configured sample count.
Camera_new_scale_by_spp(samples_per_pixel, max_depth, background) ==
    LET sqrt_spp == ISqrt(samples_per_pixel)
    IN  [samples_per_pixel |-> samples_per_pixel,
         max_depth |-> max_depth,
         background |-> background,
         sqrt_spp |-> sqrt_spp,
         pixel_samples_scale |-> FDiv(One, F(samples_per_pixel))]

Camera_new(samples_per_pixel, max_depth, background) ==
    LET sqrt_spp == ISqrt(samples_per_pixel)
    IN  [samples_per_pixel |-> samples_per_pixel,
         max_depth |-> max_depth,
         background |-> background,
         sqrt_spp |-> sqrt_spp,
         pixel_samples_scale |-> FDiv(One, F(sqrt_spp * sqrt_spp))]

\* depth - 1 on a u32: below zero the subtraction overflows.
DepthMinus1(depth) == IF depth = 0 THEN Underflow ELSE depth - 1

Bump(field) == [counts EXCEPT ![field] = @ + 1]

InitCam ==
    /\ cam \in { Camera_new(n, d, b) : n \in SppInputs, d \in 0..MaxDepth, b \in Backgrounds }
    /\ cam.sqrt_spp * cam.sqrt_spp * cam.max_depth <= MaxRays
    /\ lights \in {0, 1}
    /\ sample = 0 /\ pixel_color = VZERO
    /\ rcCall = <<>> /\ rcStack = <<>> /\ rcRet = <<>>
    /\ counts = NoCounts /\ shadow = NoShadow /\ outPixel = <<>> /\ traced = <<>>
    /\ ListIdle /\ AABBIdle /\ CallIdle /\ QueryIdle /\ BVHIdle /\ RenderIdle

CamOthers == <<aabbVars, callVars, queryVars, listVars, bvhVars, renderVars>>

\* render, lines 119-122: the cells (s_i, s_j) the two sample loops range over.
Grid(c) == (0..(c.sqrt_spp - 1)) \X (0..(c.sqrt_spp - 1))
Range(seq) == { seq[k] : k \in 1..Len(seq) }

\* render, lines 123-124: the primary ray of a cell not yet sampled enters
\* ray_color.  The cells are taken in any order, one at a time.
TraceSample ==
    /\ outPixel = <<>>
    /\ rcCall = <<>> /\ rcStack = <<>> /\ rcRet = <<>>
    /\ \E cell \in Grid(cam) \ Range(traced) : traced' = Append(traced, cell)
    /\ rcCall' = <<cam.max_depth>>
    /\ counts' = NoCounts
    /\ UNCHANGED <<cam, lights, sample, pixel_color, rcStack, rcRet, shadow, outPixel, CamOthers>>

\* ray_color, depth == 0.
ray_color_cutoff ==
    /\ rcCall # <<>>
    /\ rcCall[1] = 0
    /\ rcRet' = <<VZERO>>
    /\ shadow' = [shadow EXCEPT !.ret = <<VZERO>>]
    /\ rcCall' = <<>>
    /\ UNCHANGED <<cam, lights, sample, pixel_color, rcStack, counts, outPixel, traced, CamOthers>>

\* The scene query issued without the depth check in front of it.
ray_color_miss_unchecked ==
    /\ rcCall # <<>>
    /\ counts' = Bump("hit")
    /\ rcRet' = <<cam.background>>
    /\ shadow' = [shadow EXCEPT !.ret = <<cam.background>>]
    /\ rcCall' = <<>>
    /\ UNCHANGED <<cam, lights, sample, pixel_color, rcStack, outPixel, traced, CamOthers>>

\* ray_color: world.hit finds nothing.
ray_color_miss ==
    /\ rcCall # <<>>
    /\ rcCall[1] # 0
    /\ counts' = Bump("hit")
    /\ rcRet' = <<cam.background>>
    /\ shadow' = [shadow EXCEPT !.ret = <<cam.background>>]
    /\ rcCall' = <<>>
    /\ UNCHANGED <<cam, lights, sample, pixel_color, rcStack, outPixel, traced, CamOthers>>

\* ray_color: the hit material does not scatter.
ray_color_absorb ==
    /\ rcCall # <<>>
    /\ rcCall[1] # 0
    /\ \E mat \in Materials, front_face \in BOOLEAN :
        /\ scatter(mat) = None
        /\ counts' = [counts EXCEPT !.hit = @ + 1, !.emitted = @ + 1, !.scatter = @ + 1]
        /\ rcRet' = <<emitted(mat, [front_face |-> front_face])>>
        /\ shadow' = [shadow EXCEPT !.ret = <<emitted(mat, [front_face |-> front_face])>>]
    /\ rcCall' = <<>>
    /\ UNCHANGED <<cam, lights, sample, pixel_color, rcStack, outPixel, traced, CamOthers>>

\* The specular bounce taken without the depth check in front of it.
ray_color_skip_pdf_unchecked ==
    /\ rcCall # <<>>
    /\ \E mat \in Materials, front_face \in BOOLEAN :
        /\ scatter(mat) # None
        /\ scatter(mat)[1].skip_pdf
        /\ counts' = [counts EXCEPT !.hit = @ + 1, !.emitted = @ + 1, !.scatter = @ + 1]
        /\ rcStack' = Append(rcStack,
                [kind |-> "skip_pdf",
                 depth |-> rcCall[1],
                 color_from_emission |-> emitted(mat, [front_face |-> front_face]),
                 attenuation |-> scatter(mat)[1].attenuation,
                 scattering_pdf |-> Zero,
                 pdf_value |-> Zero])
    /\ rcCall' = <<DepthMinus1(rcCall[1])>>
    /\ UNCHANGED <<cam, lights, sample, pixel_color, rcRet, shadow, outPixel, traced, CamOthers>>

\* ray_color: a specular material; recurse along skip_pdf_ray.
ray_color_skip_pdf ==
    /\ rcCall # <<>>
    /\ rcCall[1] # 0
    /\ \E mat \in Materials, front_face \in BOOLEAN :
        /\ scatter(mat) # None
        /\ scatter(mat)[1].skip_pdf
        /\ counts' = [counts EXCEPT !.hit = @ + 1, !.emitted = @ + 1, !.scatter = @ + 1]
        /\ rcStack' = Append(rcStack,
                [kind |-> "skip_pdf",
                 depth |-> rcCall[1],
                 color_from_emission |-> emitted(mat, [front_face |-> front_face]),
                 attenuation |-> scatter(mat)[1].attenuation,
                 scattering_pdf |-> Zero,
                 pdf_value |-> Zero])
    /\ rcCall' = <<DepthMinus1(rcCall[1])>>
    /\ UNCHANGED <<cam, lights, sample, pixel_color, rcRet, shadow, outPixel, traced, CamOthers>>

\* ray_color: sample the mixture (or the material's PDF alone) and recurse.
ray_color_sample_pdf ==
    /\ rcCall # <<>>
    /\ rcCall[1] # 0
    /\ \E mat \in Materials, front_face \in BOOLEAN, from_light \in BOOLEAN :
        /\ scatter(mat) # None
        /\ ~scatter(mat)[1].skip_pdf
        /\ from_light => lights > 0
        /\ \E d \in (IF from_light THEN PDF_generate("HittablePDF")
                                     ELSE PDF_generate(scatter(mat)[1].pdf)) :
            /\ lights = 0 => d.light_pdf = Zero
            /\ counts' = [counts EXCEPT !.hit = @ + 1, !.emitted = @ + 1,
                                         !.scatter = @ + 1, !.generate = @ + 1]
            /\ rcStack' = Append(rcStack,
                    [kind |-> "pdf",
                     depth |-> rcCall[1],
                     color_from_emission |-> emitted(mat, [front_face |-> front_face]),
                     attenuation |-> scatter(mat)[1].attenuation,
                     scattering_pdf |-> scattering_pdf(mat, d),
                     pdf_value |-> IF lights > 0
                                   THEN MixturePDF_value("HittablePDF", scatter(mat)[1].pdf, d)
                                   ELSE PDF_value(scatter(mat)[1].pdf, d)])
    /\ rcCall' = <<DepthMinus1(rcCall[1])>>
    /\ UNCHANGED <<cam, lights, sample, pixel_color, rcRet, shadow, outPixel, traced, CamOthers>>

\* What a waiting frame returns once its recursive call gave sample_color.
Combine(frame, sample_color) ==
    IF frame.kind = "skip_pdf"
    THEN VMul(frame.attenuation, sample_color)
    ELSE VAdd(frame.color_from_emission,
              VDivK(VMul(VScale(frame.attenuation, frame.scattering_pdf), sample_color),
                    frame.pdf_value))

\* The same with the scattered part of a zero-density sample set to zero.
CombineGuarded(frame, sample_color) ==
    IF frame.kind = "pdf" /\ frame.pdf_value = Zero
    THEN frame.color_from_emission
    ELSE Combine(frame, sample_color)

\* ray_color: the recursive call returned.
ray_color_return ==
    /\ rcRet # <<>>
    /\ rcStack # <<>>
    /\ rcRet' = <<Combine(rcStack[Len(rcStack)], rcRet[1])>>
    /\ shadow' = [shadow EXCEPT !.ret = <<CombineGuarded(rcStack[Len(rcStack)], shadow.ret[1])>>]
    /\ rcStack' = SubSeq(rcStack, 1, Len(rcStack) - 1)
    /\ UNCHANGED <<cam, lights, sample, pixel_color, rcCall, counts, outPixel, traced, CamOthers>>

\* render, lines 119-128: the sample's colour joins the pixel's sum.
SumSample ==
    /\ rcRet # <<>>
    /\ rcStack = <<>>
    /\ pixel_color' = VAdd(pixel_color, rcRet[1])
    /\ shadow' = [ret |-> <<>>, sum |-> VAdd(shadow.sum, shadow.ret[1])]
    /\ sample' = sample + 1
    /\ rcRet' = <<>>
    /\ UNCHANGED <<cam, lights, rcCall, rcStack, counts, outPixel, traced, CamOthers>>

\* render, line 130: the pixel is scaled and formatted.
WritePixel ==
    /\ outPixel = <<>>
    /\ rcCall = <<>> /\ rcStack = <<>> /\ rcRet = <<>>
    /\ Grid(cam) \subseteq Range(traced)
    /\ outPixel' = <<write_color(VScale(pixel_color, cam.pixel_samples_scale))>>
    /\ UNCHANGED <<cam, lights, sample, pixel_color, rcCall, rcStack, rcRet, counts, shadow, traced, CamOthers>>

NextCam ==
    \/ TraceSample
    \/ ray_color_cutoff
    \/ ray_color_miss
    \/ ray_color_absorb
    \/ ray_color_skip_pdf
    \/ ray_color_sample_pdf
    \/ ray_color_return
    \/ SumSample
    \/ WritePixel
SpecCam == InitCam /\ [][NextCam]_vars

\* ray_color is on the call stack: a call is being entered or a frame waits
\* for the colour its recursive call returned.
Running == rcCall # <<>> \/ (rcRet # <<>> /\ rcStack # <<>>)
RayColorStep ==
    \/ ray_color_cutoff
    \/ ray_color_miss
    \/ ray_color_absorb
    \/ ray_color_skip_pdf
    \/ ray_color_sample_pdf
    \/ ray_color_return
\* The thread that runs ray_color keeps running it: WF_vars(RayColorStep),
\* with ENABLED <<RayColorStep>>_vars written out as Running.
SpecCamFair == SpecCam /\ ([]<>~Running \/ []<><<RayColorStep>>_vars)

(***************************************************************************)
(* write_color on its own, over channel values of every class              *)
(***************************************************************************)
ChannelInputs ==
    { Zero, Frac(1, 4), One, F(4), F(-1), PosInf, NegInf, NaN }

InitColor ==
    /\ pixel_color \in { <<r, g, b>> : r \in ChannelInputs, g \in ChannelInputs, b \in ChannelInputs }
    /\ cam = Camera_new(0, 0, VZERO) /\ lights = 0 /\ sample = 0
    /\ rcCall = <<>> /\ rcStack = <<>> /\ rcRet = <<>>
    /\ counts = NoCounts /\ shadow = NoShadow /\ outPixel = <<>> /\ traced = <<>>
    /\ ListIdle /\ AABBIdle /\ CallIdle /\ QueryIdle /\ BVHIdle /\ RenderIdle

WriteColor ==
    /\ outPixel = <<>>
    /\ outPixel' = <<write_color(pixel_color)>>
    /\ UNCHANGED <<cam, lights, sample, pixel_color, rcCall, rcStack, rcRet, counts, shadow, traced, CamOthers>>

NextColor == WriteColor
SpecColor == InitColor /\ [][NextColor]_vars

(***************************************************************************)
(* Camera::render: the fork-join loop over the pixels                      *)
(***************************************************************************)
MaxPixels == 4
ImageInputs ==
    { img \in [image_width : 1..MaxPixels, image_height : 1..MaxPixels] :
        img.image_width * img.image_height <= MaxPixels }
\* The lines write_color can give a pixel.
PixelStrings == { <<0, 0, 0>>, <<255, 255, 255>> }

PixelsOf(img) == (0..(img.image_width - 1)) \X (0..(img.image_height - 1))
RenderOthers == <<aabbVars, callVars, queryVars, listVars, bvhVars, camVars>>

InitRender ==
    /\ image \in ImageInputs
    /\ phase = "idle"
    /\ cells = <<>> /\ rows = <<>> /\ pixels = <<>>
    /\ writer = <<>> /\ computed = <<>>
    /\ ListIdle /\ AABBIdle /\ CallIdle /\ QueryIdle /\ BVHIdle /\ CamIdle

\* lines 105-111: the file is created and the PPM header goes to the writer;
\* the parallel iterator over the scanlines starts.
WriteHeader ==
    /\ phase = "idle"
    /\ writer' = << [kind |-> "P3", data |-> <<>>],
                    [kind |-> "size", data |-> <<image.image_width, image.image_height>>],
                    [kind |-> "maxval", data |-> <<255>>] >>
    /\ cells' = [p \in PixelsOf(image) |-> <<>>]
    /\ rows' = [j \in 0..(image.image_height - 1) |-> <<>>]
    /\ phase' = "rendering"
    /\ UNCHANGED <<image, pixels, computed, RenderOthers>>

\* A closure that writes its String to the writer as soon as it has it.
PixelTask_streaming(i, j) ==
    /\ phase = "rendering"
    /\ cells[<<i, j>>] = <<>>
    /\ \E rgb \in PixelStrings :
        /\ cells' = [cells EXCEPT ![<<i, j>>] = <<[px |-> <<i, j>>, rgb |-> rgb]>>]
        /\ writer' = Append(writer, [kind |-> "pixels", data |-> <<[px |-> <<i, j>>, rgb |-> rgb]>>])
    /\ computed' = Append(computed, <<i, j>>)
    /\ UNCHANGED <<image, phase, rows, pixels, RenderOthers>>

\* lines 117-131: the closure of pixel (i, j), run by any worker at any time;
\* it returns the String of write_color.  px records whose String it is.
PixelTask(i, j) ==
    /\ phase = "rendering"
    /\ cells[<<i, j>>] = <<>>
    /\ \E rgb \in PixelStrings :
        cells' = [cells EXCEPT ![<<i, j>>] = <<[px |-> <<i, j>>, rgb |-> rgb]>>]
    /\ computed' = Append(computed, <<i, j>>)
    /\ UNCHANGED <<image, phase, rows, pixels, writer, RenderOthers>>

RECURSIVE JoinCells(_, _, _)
\* collect::<Vec<String>>().join("") over 0..image_width: by index.
JoinCells(c, j, n) ==
    IF n = 0 THEN <<>> ELSE Append(JoinCells(c, j, n - 1), c[<<n - 1, j>>][1])

\* The same Strings joined in the order the closures finished.
RowCollect_as_finished(j) ==
    /\ phase = "rendering"
    /\ rows[j] = <<>>
    /\ \A i \in 0..(image.image_width - 1) : cells[<<i, j>>] # <<>>
    /\ rows' = [rows EXCEPT ![j] =
                  << [k \in 1..image.image_width |->
                        cells[SelectSeq(computed, LAMBDA p : p[2] = j)[k]][1]] >>]
    /\ UNCHANGED <<image, phase, cells, pixels, writer, computed, RenderOthers>>

\* line 132: scanline j's pixels are all there; collect and join them.
RowCollect(j) ==
    /\ phase = "rendering"
    /\ rows[j] = <<>>
    /\ \A i \in 0..(image.image_width - 1) : cells[<<i, j>>] # <<>>
    /\ rows' = [rows EXCEPT ![j] = <<JoinCells(cells, j, image.image_width)>>]
    /\ UNCHANGED <<image, phase, cells, pixels, writer, computed, RenderOthers>>

RECURSIVE JoinRows(_, _)
JoinRows(r, n) ==
    IF n = 0 THEN <<>> ELSE JoinRows(r, n - 1) \o r[n - 1][1]

\* line 134: every scanline has returned; collect and join them.
Collect ==
    /\ phase = "rendering"
    /\ \A j \in 0..(image.image_height - 1) : rows[j] # <<>>
    /\ pixels' = <<JoinRows(rows, image.image_height)>>
    /\ phase' = "joined"
    /\ UNCHANGED <<image, cells, rows, writer, computed, RenderOthers>>

\* line 136: writeln!(writer, "{}", pixels)
WritePixels ==
    /\ phase = "joined"
    /\ writer' = Append(writer, [kind |-> "pixels", data |-> pixels[1]])
    /\ phase' = "written"
    /\ UNCHANGED <<image, cells, rows, pixels, computed, RenderOthers>>

\* line 137: writer.flush()
Flush ==
    /\ phase = "written"
    /\ phase' = "flushed"
    /\ UNCHANGED <<image, cells, rows, pixels, writer, computed, RenderOthers>>

NextRender ==
    \/ WriteHeader
    \/ \E i \in 0..(image.image_width - 1), j \in 0..(image.image_height - 1) : PixelTask(i, j)
    \/ \E j \in 0..(image.image_height - 1) : RowCollect(j)
    \/ Collect
    \/ WritePixels
    \/ Flush
SpecRender == InitRender /\ [][NextRender]_vars

(***************************************************************************)
(* C2                                                                      *)
(***************************************************************************)
\* The ray point at parameter t lies in the box on all three axes, t in rt.
InsideAt(b, r, rt, t) ==
    /\ contains(rt, t)
    /\ \A k \in 1..3 : contains(axis_interval(b, Axes[k]), Ray_at(r, t)[k])

\* The same with every bound strict: t is interior to rt and to the box.
StrictlyInsideAt(b, r, rt, t) ==
    /\ surrounds(rt, t)
    /\ \A k \in 1..3 : surrounds(axis_interval(b, Axes[k]), Ray_at(r, t)[k])

\* Where a non-empty set of common parameters must have a member: the ends of
\* rt, the slab entries and exits, and the midpoints between them.
SlabTimes(b, r, rt) ==
    {Zero, rt.min, rt.max} \cup
    { FDiv(FSub(e, r.orig[k]), r.dir[k]) :
        k \in {j \in 1..3 : r.dir[j] # Zero},
        e \in {axis_interval(b, Axes[1]).min, axis_interval(b, Axes[1]).max,
               axis_interval(b, Axes[2]).min, axis_interval(b, Axes[2]).max,
               axis_interval(b, Axes[3]).min, axis_interval(b, Axes[3]).max} }
CandidateTs(b, r, rt) ==
    LET fin == {t \in SlabTimes(b, r, rt) : IsFinite(t)}
    IN  fin \cup { FDiv(FAdd(s, t), F(2)) : s \in fin, t \in fin }
             \cup { FAdd(s, One) : s \in fin } \cup { FSub(s, One) : s \in fin }

ExistsCommonT(b, r, rt) == \E t \in CandidateTs(b, r, rt) : InsideAt(b, r, rt, t)
ExistsInteriorT(b, r, rt) == \E t \in CandidateTs(b, r, rt) : StrictlyInsideAt(b, r, rt, t)

\* C2: AABB::hit is true iff some single t inside ray_t puts the ray point
\* inside the box on all three axes at once (a hit implies a common t; a
\* common t interior to the interval and the box implies a hit).
C2_HitIffCommonT ==
    boxHit # "unset" =>
        /\ (boxHit = "hit" => ExistsCommonT(box, ray, ray_t))
        /\ (ExistsInteriorT(box, ray, ray_t) => boxHit = "hit")

(***************************************************************************)
(* C3                                                                      *)
(***************************************************************************)
\* The tight union of two boxes, and of the boxes of a sequence of objects.
BoxUnion2(a, b) ==
    [x |-> [min |-> FMin(a.x.min, b.x.min), max |-> FMax(a.x.max, b.x.max)],
     y |-> [min |-> FMin(a.y.min, b.y.min), max |-> FMax(a.y.max, b.y.max)],
     z |-> [min |-> FMin(a.z.min, b.z.min), max |-> FMax(a.z.max, b.z.max)]]
RECURSIVE BoxUnion(_)
BoxUnion(objs) ==
    IF objs = <<>> THEN AABB_EMPTY
    ELSE BoxUnion2(BoxUnion(Tail(objs)), Head(objs).bounding_box)

\* C3: after any sequence of new, from_object, add and clear the cached
\* bounding_box is the union of the boxes of the objects now in the list,
\* and the empty box when the list is empty.
C3_CachedBoxIsUnion == bounding_box = BoxUnion(objects)

(***************************************************************************)
(* C1                                                                      *)
(***************************************************************************)
\* C1: for every scene, ray and interval the BVH built from the list reports
\* what the linear scan of the list reports: both no hit, or the same record
\* (t, point, material).
C1_BVHEqualsScan == pc = "queried" => bvhRec = listRec

(***************************************************************************)
(* C4  ray_color called with depth == 0 returns Color::ZERO and makes no   *)
(*     scene query: from a call at depth 0 the only step is the return of  *)
(*     black, and no world.hit, emitted, scatter or generate is counted.   *)
(***************************************************************************)
C4_DepthZeroIsBlack ==
    [][(rcCall # <<>> /\ rcCall[1] = 0) => (rcRet' = <<VZERO>> /\ rcCall' = <<>> /\ counts' = counts)]_vars

\* A recursion that used its whole depth got black back from the call at depth 0.
C4_Witness ==
    /\ cam.max_depth > 0
    /\ rcCall = <<>> /\ rcRet = <<VZERO>>
    /\ Len(rcStack) = cam.max_depth
    /\ counts.hit = cam.max_depth

(***************************************************************************)
(* C5  ray_color terminates: every started call returns to render; one     *)
(*     primary ray makes at most max_depth world.hit queries, the stack    *)
(*     never holds more than max_depth frames and depth - 1 is never       *)
(*     evaluated at depth 0.                                               *)
(***************************************************************************)
DepthBounded ==
    /\ counts.hit <= cam.max_depth
    /\ Len(rcStack) <= cam.max_depth
    /\ rcCall # <<>> => rcCall[1] \in 0..cam.max_depth
    /\ \A k \in 1..Len(rcStack) : rcStack[k].depth = cam.max_depth - k + 1

C5_RayColorTerminates ==
    /\ []DepthBounded
    /\ (rcCall # <<>>) ~> (rcCall = <<>> /\ rcStack = <<>> /\ rcRet # <<>>)

\* A primary ray that bounced max_depth times has come back to render.
C5_Witness ==
    /\ cam.max_depth = MaxDepth
    /\ counts.hit = MaxDepth
    /\ rcCall = <<>> /\ rcStack = <<>> /\ rcRet # <<>>

C7_ZeroDensityContributesZero ==
    /\ rcRet # <<>> => \A k \in 1..3 : IsFinite(rcRet[1][k])
    /\ pixel_color = shadow.sum
    /\ outPixel # <<>> =>
         outPixel[1] = write_color(VScale(shadow.sum, cam.pixel_samples_scale))

(***************************************************************************)
(* C8  write_color gives each channel a byte in 0..255: 0.0 gives 0, 1.0   *)
(*     gives 255, NaN gives 0, a negative value gives 0, a value above 1.0 *)
(*     (+infinity included) gives 255.                                     *)
(***************************************************************************)
C8_WriteColorBytes ==
    outPixel # <<>> =>
        \A k \in 1..3 :
            LET x == pixel_color[k]
                byte == outPixel[1][k]
            IN  /\ byte \in 0..255
                /\ x = Zero => byte = 0
                /\ x = One => byte = 255
                /\ IsNaN(x) => byte = 0
                /\ FLt(x, Zero) => byte = 0
                /\ FGt(x, One) => byte = 255

\* A pixel with a NaN, a negative and an infinite channel has been written.
C8_Witness ==
    /\ outPixel # <<>>
    /\ pixel_color = <<NaN, F(-1), PosInf>>

(***************************************************************************)
(* C9  Whatever order the pixel closures finish in, the joined output has  *)
(*     the triplet of pixel (i, j) at position j * image_width + i, and    *)
(*     that is what the writer receives.                                   *)
(***************************************************************************)
C9_RasterOrder ==
    /\ pixels # <<>> =>
        /\ Len(pixels[1]) = image.image_width * image.image_height
        /\ \A i \in 0..(image.image_width - 1), j \in 0..(image.image_height - 1) :
              pixels[1][j * image.image_width + i + 1] = cells[<<i, j>>][1]
    /\ phase \in {"written", "flushed"} => writer[Len(writer)].data = pixels[1]

\* An image written after its pixels finished in reverse raster order.
C9_Witness ==
    /\ phase = "flushed"
    /\ Len(computed) >= 4
    /\ \A k \in 1..(Len(computed) - 1) :
          LET p == computed[k]
              q == computed[k + 1]
          IN  p[2] * image.image_width + p[1] > q[2] * image.image_width + q[1]

(***************************************************************************)
(* C10 No pixel colour reaches the writer before every pixel closure has   *)
(*     finished; the pixel data is written once, after the join; a pixel   *)
(*     closure that has not run can run whatever the other pixels' state.  *)
(***************************************************************************)
C10_WriteAfterJoin ==
    /\ \A k \in 1..Len(writer) :
          writer[k].kind = "pixels" =>
              /\ k = 4 /\ Len(writer) = 4
              /\ \A p \in PixelsOf(image) : cells[p] # <<>>
              /\ pixels # <<>>
    /\ phase = "rendering" =>
          \A p \in PixelsOf(image) : cells[p] = <<>> => ENABLED PixelTask(p[1], p[2])

\* The pixel data of an image of several pixels has been written.
C10_Witness ==
    /\ phase = "written"
    /\ Len(writer) = 4 /\ writer[4].kind = "pixels"
    /\ Len(writer[4].data) >= 2

(***************************************************************************)
(* C11 When a pixel is written, one ray has been traced for each grid cell *)
(*     (s_i, s_j) with 0 <= s_i, s_j < sqrt_spp and for no other, all of   *)
(*     them are in the sum, and the sum was multiplied by                  *)
(*     pixel_samples_scale = 1 / (number of rays traced).                  *)
(***************************************************************************)
C11_GridSamplesAndScale ==
    outPixel # <<>> =>
        /\ Len(traced) = cam.sqrt_spp * cam.sqrt_spp
        /\ Range(traced) = Grid(cam)
        /\ sample = Len(traced)
        /\ cam.pixel_samples_scale = FDiv(One, F(Len(traced)))
        /\ outPixel[1] = write_color(VScale(pixel_color, FDiv(One, F(Len(traced)))))

\* A pixel of a 2 x 2 grid, sampled from the last cell first, has been written
\* with a colour that is not black.
C11_Witness ==
    /\ outPixel # <<>>
    /\ Len(traced) = 4 /\ traced[1] = <<1, 1>>
    /\ outPixel[1] # <<0, 0, 0>>

(***************************************************************************)
(* C12 Every AABB that from_interval, from_point, from_bounding_box or the *)
(*     sum with an offset returns has max - min >= delta on each axis.     *)
(***************************************************************************)
C12_NoThinAxis ==
    result # <<>> =>
        \A k \in 1..3 : FGe(size(axis_interval(result[1], Axes[k])), delta)

(***************************************************************************)
(* C13 AABB::from_bounding_box(box1, box2) contains both inputs: on every  *)
(*     axis its min is <= each input's min and its max >= each input's max.*)
(***************************************************************************)
C13_UnionContainsBoth ==
    (result # <<>> /\ call.fn = "from_bounding_box") =>
        \A k \in 1..3, n \in 1..2 :
            LET out == axis_interval(result[1], Axes[k])
                in == axis_interval(call.args[n], Axes[k])
            IN  FLe(out.min, in.min) /\ FGe(out.max, in.max)

\* The union of two boxes neither of which contains the other.
C13_Witness ==
    /\ result # <<>> /\ call.fn = "from_bounding_box"
    /\ call.args[1] \notin {AABB_EMPTY, AABB_UNIVERSE}
    /\ call.args[2] \notin {AABB_EMPTY, AABB_UNIVERSE}
    /\ result[1] # call.args[1] /\ result[1] # call.args[2]

(***************************************************************************)
(* C14 MixturePDF::value(d) is the mean (light_pdf.value(d) +              *)
(*     surface_pdf.value(d)) / 2 of its children's values, and each call   *)
(*     of MixturePDF::generate delegates to exactly one child and returns  *)
(*     a direction of that child.                                          *)
(***************************************************************************)
C14_MixtureIsMean ==
    /\ (result # <<>> /\ call.fn = "MixturePDF::value") =>
          result[1] = FDiv(FAdd(PDF_value(call.args[1], call.args[3]),
                                PDF_value(call.args[2], call.args[3])), F(2))
    /\ (result # <<>> /\ call.fn = "MixturePDF::generate") =>
          /\ Len(result[1].delegates) = 1
          /\ result[1].delegates[1] \in {"light_pdf", "surface_pdf"}
          /\ result[1].direction \in
                PDF_generate(IF result[1].delegates[1] = "light_pdf"
                             THEN call.args[1] ELSE call.args[2])

\* The value of a mixture one of whose children gives the direction density 0
\* and the other does not.
C14_Witness ==
    /\ result # <<>> /\ call.fn = "MixturePDF::value"
    /\ PDF_value(call.args[1], call.args[3]) = Zero
    /\ PDF_value(call.args[2], call.args[3]) # Zero

(***************************************************************************)
(* C15 For a material whose ScatterRecord has skip_pdf = false, the        *)
(*     material's scattering_pdf of a scattered direction equals the value *)
(*     the ScatterRecord's PDF gives that direction.                       *)
(***************************************************************************)
C15_ScatteringPdfIsPdfValue ==
    (result # <<>> /\ call.fn = "scattering_pdf" /\ ~scatter(call.args[1])[1].skip_pdf) =>
        result[1].scattering_pdf = result[1].pdf_value

\* A Lambertian hit whose scattered direction points below the surface.
C15_Witness ==
    /\ result # <<>> /\ call.fn = "scattering_pdf"
    /\ call.args[1].kind = "Lambertian"
    /\ FLt(Lambertian_cos_theta(call.args[2], call.args[3]), Zero)

(***************************************************************************)
(* C16 Every HitRecord that hit returns, of any Hittable variant, has its  *)
(*     normal against the incoming ray: dot(ray.direction, normal) <= 0,   *)
(*     and front_face tells whether the ray came from the outward side.    *)
(***************************************************************************)
HitReturned == result # <<>> /\ call.fn = "hit" /\ IsSome(result[1])

C16_NormalAgainstRay ==
    HitReturned =>
        /\ FLe(dot(call.args[2].dir, result[1][1].normal), Zero)
        /\ result[1][1].front_face => FLt(dot(call.args[2].dir, result[1][1].normal), Zero)

(***************************************************************************)
(* C17 A HitRecord that hit(ray, ray_t) returns has ray_t.min <= t <=      *)
(*     ray_t.max, and the object has no intersection with the ray at a     *)
(*     smaller t inside ray_t (for a sphere: the smaller root when it is   *)
(*     inside the interval, the larger root only otherwise).               *)
(***************************************************************************)
C17_NearestInInterval ==
    HitReturned =>
        /\ contains(call.args[3], result[1][1].t)
        /\ \A x \in Intersections(call.args[1], call.args[2]) :
                contains(call.args[3], x) => FLe(result[1][1].t, x)

(***************************************************************************)
(* C18 The direction that random(origin) of a Sphere, a Quad or a Tri      *)
(*     returns points at a point of the shape: the ray from origin along   *)
(*     it hits the shape, and pdf_value(origin, direction) is positive.    *)
(***************************************************************************)
C18_RandomPointsAtShape ==
    (result # <<>> /\ call.fn = "random") =>
        /\ IsSome(result[1].hit)
        /\ FGt(result[1].pdf_value, Zero)

(***************************************************************************)
(* C19 from_vector on a slice of exactly 2 elements orders them by         *)
(*     box_compare along the longest axis of the slice's bounding box: the *)
(*     left child has the smaller bounding-box minimum on that axis.       *)
(***************************************************************************)
\* The node a call on two primitives has just returned.
PairReturned ==
    /\ ret # <<>>
    /\ ret[1].left.kind = "quad" /\ ret[1].right.kind = "quad"
    /\ ret[1].left # ret[1].right

C19_PairOrdered ==
    PairReturned =>
        box_compare(ret[1].left, ret[1].right, longest_axis(ret[1].bounding_box)) # "Greater"

(***************************************************************************)
(* C20 At every step of from_vector on a slice [start, end) of 3 or more   *)
(*     elements, the slice is split along the longest axis of the union    *)
(*     box of the elements of that slice: once it is sorted, every element *)
(*     of [start, mid) has a minimum on that axis <= the minimum of every  *)
(*     element of [mid, end).                                              *)
(***************************************************************************)
SliceAxis(f) == longest_axis(VectorBox(SubSeq(objects, f.start + 1, f.end)))
SliceMid(f) == f.start + ((f.end - f.start) \div 2)

C20_SplitOnSliceAxis ==
    \A n \in 1..Len(stack) :
        stack[n].step \in {"left", "right"} =>
            \A l \in (stack[n].start + 1)..SliceMid(stack[n]),
               g \in (SliceMid(stack[n]) + 1)..stack[n].end :
                box_compare(objects[l], objects[g], SliceAxis(stack[n])) # "Greater"

(***************************************************************************)
(* C21 In every tree from_vector builds, each node's cached bounding_box   *)
(*     is the union of the boxes of its two children and so encloses the   *)
(*     box of every primitive below the node; a tree handed over is never  *)
(*     changed afterwards, by the rest of the build or by a hit query.     *)
(***************************************************************************)
RECURSIVE NodesOf(_)
NodesOf(t) ==
    IF t.kind = "bvh" THEN {t} \cup NodesOf(t.left) \cup NodesOf(t.right) ELSE {}
RECURSIVE LeavesOf(_)
LeavesOf(t) ==
    IF t.kind = "bvh" THEN LeavesOf(t.left) \cup LeavesOf(t.right) ELSE {t}

\* The trees the build holds: the root, the last returned node and the left
\* children kept by the calls still running.
BuiltTrees ==
    { o[1] : o \in { x \in {root, ret} \cup { stack[n].left : n \in 1..Len(stack) } : x # <<>> } }

Encloses(outer, inner) ==
    \A k \in 1..3 :
        /\ FLe(axis_interval(outer, Axes[k]).min, axis_interval(inner, Axes[k]).min)
        /\ FGe(axis_interval(outer, Axes[k]).max, axis_interval(inner, Axes[k]).max)

NodeBoxIsUnion ==
    \A t \in BuiltTrees : \A n \in NodesOf(t) :
        /\ n.bounding_box = BoxUnion2(n.left.bounding_box, n.right.bounding_box)
        /\ \A p \in LeavesOf(n) : Encloses(n.bounding_box, p.bounding_box)

C21_NodeBoxIsUnion ==
    /\ []NodeBoxIsUnion
    /\ [][root # <<>> => root' = root]_vars
    /\ [][\A n \in 1..Len(stack) :
            (n <= Len(stack') /\ stack[n].left # <<>>) => stack'[n].left = stack[n].left]_vars

\* A built tree of two levels over three different primitives has been queried.
C21_Witness ==
    /\ pc = "queried"
    /\ root[1].left.kind = "bvh" /\ root[1].right.kind = "bvh"
    /\ Cardinality(LeavesOf(root[1])) = 3

(***************************************************************************)
(* C22 A tree from_vector builds of n >= 1 elements has depth at most n,   *)
(*     and BVHNode::hit on it ends for every ray: it makes at most one     *)
(*     call for each node and leaf position of the tree, also where a node *)
(*     holds the same element as both children.                            *)
(***************************************************************************)
RECURSIVE TreeDepth(_)
TreeDepth(t) ==
    IF t.kind # "bvh" THEN 0
    ELSE 1 + (IF TreeDepth(t.left) >= TreeDepth(t.right)
              THEN TreeDepth(t.left) ELSE TreeDepth(t.right))
\* Node and leaf positions, an element held twice counted twice.
RECURSIVE TreeSize(_)
TreeSize(t) == IF t.kind # "bvh" THEN 1 ELSE 1 + TreeSize(t.left) + TreeSize(t.right)

C22_DepthAndHitBounded ==
    root # <<>> =>
        /\ Len(objects) >= 1
        /\ TreeDepth(root[1]) <= Len(objects)
        /\ pc = "queried" => HitCalls(root[1], ray, ray_t) <= TreeSize(root[1])

\* A ray went through every position of a tree that has a node holding one
\* element twice.
C22_Witness ==
    /\ pc = "queried"
    /\ \E n \in NodesOf(root[1]) : n.left = n.right
    /\ TreeDepth(root[1]) = 2
    /\ HitCalls(root[1], ray, ray_t) = TreeSize(root[1])

(***************************************************************************)
(* C23 The ray ray_color makes its recursive call on has the time of the   *)
(*     incoming ray, whether it is the ray of the sampled direction, the   *)
(*     reflection of a Metal or the reflection or refraction of a          *)
(*     Dielectric.                                                         *)
(***************************************************************************)
ScatterReturned == result # <<>> /\ call.fn = "ray_color"

C23_ContinuationKeepsTime ==
    (ScatterReturned /\ result[1].scattered # <<>>) =>
        result[1].scattered[1].tm = call.args[1].tm

\* A Metal bounce, a Dielectric refraction and a sampled direction, each of
\* a ray whose time is not 0.
C23_Witness ==
    /\ ScatterReturned
    /\ result[1].scattered # <<>>
    /\ call.args[1].tm = Frac(3, 4)
    /\ call.args[2].mat.kind = "Dielectric"
    /\ result[1].scattered[1].dir = Vec(0, 0, -1)

(***************************************************************************)
(* C24 Where ray_color samples a PDF, the PDF is the MixturePDF of the     *)
(*     HittablePDF over the lights and the material's PDF when the lights  *)
(*     list is not empty, and the material's PDF alone when it is empty;   *)
(*     HittableList::pdf_value and HittableList::random are never called   *)
(*     on an empty list.                                                   *)
(***************************************************************************)
\* The value the material's own PDF gives the scattered direction.
MaterialPdfValue ==
    PDF_value(scatter(call.args[2].mat)[1].pdf,
              [cos |-> CosinePDF_cosine_theta(call.args[2].normal, result[1].scattered[1].dir),
               light_pdf |-> Zero])

PdfSampled == ScatterReturned /\ result[1].pdf_value # <<>>

C24_MixtureOnlyWithLights ==
    PdfSampled =>
        /\ \A n \in 1..Len(result[1].list_calls) : result[1].list_calls[n].len > 0
        /\ IF call.args[3].objects = <<>>
           THEN /\ result[1].selected_pdf = scatter(call.args[2].mat)[1].pdf
                /\ result[1].list_calls = <<>>
                /\ result[1].pdf_value[1] = MaterialPdfValue
           ELSE /\ result[1].selected_pdf = "MixturePDF"
                /\ result[1].pdf_value[1] =
                      FDiv(FAdd(HittableList_pdf_value(call.args[3], call.args[2].point,
                                                       result[1].scattered[1].dir),
                                MaterialPdfValue), F(2))

\* A direction drawn from a list of two lights, with a positive density.
C24_Witness ==
    /\ PdfSampled
    /\ result[1].list_calls = << [fn |-> "random", len |-> 2], [fn |-> "pdf_value", len |-> 2] >>
    /\ FGt(result[1].pdf_value[1], Zero)

(***************************************************************************)
(* C25 BVHNode::from_hittable_list ends for every list, the empty list and *)
(*     lists of 1, 2 and 3 elements included: each call of from_vector     *)
(*     made by from_vector is on a slice that is not empty and is strictly *)
(*     shorter than the caller's, and the call stack does not overflow.    *)
(***************************************************************************)
SpanOf(f) == f.end - f.start

C25_BuildTerminates ==
    /\ pc # "overflow"
    /\ \A n \in 2..Len(stack) :
        SpanOf(stack[n]) >= 1 /\ SpanOf(stack[n]) < SpanOf(stack[n - 1])

\* How many positions of seq hold x.
CountIn(seq, x) == Cardinality({ k \in 1..Len(seq) : seq[k] = x })
SameMultiset(s, t) ==
    /\ Len(s) = Len(t)
    /\ \A x \in Range(s) \cup Range(t) : CountIn(s, x) = CountIn(t, x)

\* C26: BVHNode::from_hittable_list only permutes the list it is given: no
\* step of the construction changes the multiset of objects in the list, and
\* in the built tree the leaves are exactly the objects of the list (none
\* dropped, none added).
C26_BuildPermutes ==
    /\ [](pc = "built" => LeavesOf(root[1]) = Range(objects))
    /\ [][SameMultiset(objects, objects')]_vars

\* C26 witness: a tree of depth 3 built from a list of six objects, four of
\* them distinct, after the slices of the list were sorted in place.
C26_Witness ==
    /\ pc = "built"
    /\ Len(objects) = 6
    /\ Cardinality(Range(objects)) >= 4
    /\ TreeDepth(root[1]) = 3
    /\ LeavesOf(root[1]) = Range(objects)

HitCalled(kind) == call # NoCall /\ call.fn = "hit" /\ call.args[1].kind = kind

\* C27: the world-to-object transform EulerRotation::hit applies to the ray
\* is the exact inverse of the object-to-world transform it applies to the
\* record: the ray's origin and direction, taken into object space and back,
\* are the origin and direction the ray had, for every triple of angles.
C27_RotationRoundTrip ==
    HitCalled("rotation") =>
        LET rot == call.args[1]
            r == call.args[2]
            rotated_ray == EulerRotation_rotated_ray(rot, r)
        IN  /\ RotateAll(rotated_ray.orig, rot.euler_angles, 1) = r.orig
            /\ RotateAll(rotated_ray.dir, rot.euler_angles, 1) = r.dir

\* C28: the object-space ray that Translation::hit and EulerRotation::hit
\* hand to the wrapped object has the time of the world-space ray.
C28_WrappersKeepTime ==
    /\ HitCalled("translation") =>
          Translation_offset_ray(call.args[1], call.args[2]).tm = call.args[2].tm
    /\ HitCalled("rotation") =>
          EulerRotation_rotated_ray(call.args[1], call.args[2]).tm = call.args[2].tm

\* C29: pdf_value(origin, direction) of a Quad or a Tri is 0 for every
\* direction whose ray from origin gets no record from the shape's own hit.
C29_DensityOnlyOnFootprint ==
    (result # <<>> /\ call.fn = "random" /\ call.args[1].kind \in {"quad", "tri"}) =>
        (result[1].hit = None => result[1].pdf_value = Zero)

(***************************************************************************)
(* Texture lookups: Image::value and Perlin::noise                         *)
(***************************************************************************)
MaxSide == 3
MaxPoints == 4
MaskBits == 8

\* f64 as u32 of a finite value below 2^31: NaN and negatives give 0, the
\* fraction is cut off.
AsU32(x) == IF x[2] = 0 \/ x[1] < 0 THEN 0 ELSE x[1] \div x[2]

\* The pixel Image::value asks get_pixel for; <<>> when it returns early.
Image_value(img, uv) ==
    IF img.height = 0 THEN <<>>
    ELSE LET clamped_u == clamp(Interval_UNIT, uv[1])
             clamped_v == FSub(One, clamp(Interval_UNIT, uv[2]))
         IN  <<[x |-> AsU32(FMul(clamped_u, F(img.width))),
                y |-> AsU32(FMul(clamped_v, F(img.height)))]>>

\* f64::floor as isize of a finite value.
FloorAsIsize(x) == x[1] \div x[2]

RECURSIVE BitAnd(_, _)
BitAnd(a, b) ==
    IF a = 0 \/ b = 0 THEN 0
    ELSE (a % 2) * (b % 2) + 2 * BitAnd(a \div 2, b \div 2)
RECURSIVE BitXor(_, _)
BitXor(a, b) ==
    IF a = 0 /\ b = 0 THEN 0
    ELSE (((a % 2) + (b % 2)) % 2) + 2 * BitXor(a \div 2, b \div 2)

\* (i & (point_count - 1) as isize) as usize: the mask is not negative and is
\* below 2^MaskBits, so only the low MaskBits bits of the two's complement of
\* i count.
Masked(i, point_count) == BitAnd(i % (2 ^ MaskBits), point_count - 1)

\* perm_x[xi] ^ perm_y[yi] ^ perm_z[zi] of the values read.
Perlin_index(x, y, z) == BitXor(BitXor(x, y), z)

\* Perlin::new: the three shuffles of 0..point_count-1 (0-based, as in the code).
Shuffles(point_count) ==
    { p \in [0..(point_count - 1) -> 0..(point_count - 1)] :
        \A a, b \in 0..(point_count - 1) : p[a] = p[b] => a = b }
Perlin_new(point_count, perm_x, perm_y, perm_z) ==
    [point_count |-> point_count, perm_x |-> perm_x, perm_y |-> perm_y, perm_z |-> perm_z]

\* The positions Perlin::noise reads for the corner (di, dj, dk); index is the
\* position in random_vecs, read only if the three before it are in bounds.
Perlin_read(perlin, i, j, k, di, dj, dk) ==
    LET xi == Masked(i + di, perlin.point_count)
        yi == Masked(j + dj, perlin.point_count)
        zi == Masked(k + dk, perlin.point_count)
    IN  [xi |-> xi, yi |-> yi, zi |-> zi,
         index |-> IF xi < perlin.point_count /\ yi < perlin.point_count
                      /\ zi < perlin.point_count
                   THEN <<Perlin_index(perlin.perm_x[xi], perlin.perm_y[yi], perlin.perm_z[zi])>>
                   ELSE <<>>]

Perlin_noise(perlin, point) ==
    { Perlin_read(perlin, FloorAsIsize(point[1]), FloorAsIsize(point[2]),
                  FloorAsIsize(point[3]), di, dj, dk) : di \in 0..1, dj \in 0..1, dk \in 0..1 }

Images == { [width |-> w, height |-> h] : w \in 1..MaxSide, h \in 1..MaxSide }
              \cup { [width |-> 0, height |-> 0] }
TextureCoords == { NaN, Frac(-1, 2), Zero, Frac(1, 4), Half, Frac(3, 4), Frac(99, 100), One, F(2) }
NoisePoints ==
    { Vec(0, 0, 0), Vec(1, 2, 3), Vec(-1, -2, -3), <<Frac(-1, 2), Frac(5, 2), F(7)>>,
      <<F(255), F(-256), Frac(1, 3)>> }

InitTexture ==
    /\ CallIdle
    /\ AABBIdle /\ QueryIdle /\ ListIdle /\ BVHIdle /\ CamIdle /\ RenderIdle

ImageValue ==
    /\ call = NoCall
    /\ \E img \in Images, u \in TextureCoords, v \in TextureCoords :
        /\ call' = [fn |-> "value", args |-> <<img, <<u, v>>>>]
        /\ result' = <<Image_value(img, <<u, v>>)>>
    /\ UNCHANGED MakeOthers

PerlinNoise ==
    /\ call = NoCall
    /\ \E point_count \in 1..MaxPoints, point \in NoisePoints :
        \E perm_x \in Shuffles(point_count), perm_y \in Shuffles(point_count),
           perm_z \in Shuffles(point_count) :
            /\ call' = [fn |-> "noise",
                        args |-> <<Perlin_new(point_count, perm_x, perm_y, perm_z), point>>]
            /\ result' = <<Perlin_noise(Perlin_new(point_count, perm_x, perm_y, perm_z), point)>>
    /\ UNCHANGED MakeOthers

NextTexture == ImageValue \/ PerlinNoise \/ HitDrop
SpecTexture == InitTexture /\ [][NextTexture]_vars

\* C30: texture lookups never index out of bounds: the pixel Image::value
\* reads has x < width and y < height for every (u, v), and Perlin::noise
\* reads perm_x, perm_y, perm_z and random_vecs only at positions below
\* point_count, for every point and every point_count >= 1.
C30_TextureInBounds ==
    /\ (result # <<>> /\ call.fn = "value") =>
          \A pixel \in Range(result[1]) :
              pixel.x < call.args[1].width /\ pixel.y < call.args[1].height
    /\ (result # <<>> /\ call.fn = "noise") =>
          \A read \in result[1] :
              /\ read.xi < call.args[1].point_count
              /\ read.yi < call.args[1].point_count
              /\ read.zi < call.args[1].point_count
              /\ \A index \in Range(read.index) : index < call.args[1].point_count
====
